---- MODULE Spec2Model ----
(***************************************************************************)
(* Custody window generation and resolution engine of custody_schedule     *)
(* (custom_components/custody_schedule/schedule.py).                       *)
(*                                                                         *)
(* Time is local wall-clock time in whole seconds since EpochYear-01-01    *)
(* 00:00, which is a Monday.  A datetime t has date DateOf(t) (a day       *)
(* number) and time of day SecOf(t).  Labels of windows are not modelled.  *)
(***************************************************************************)
EXTENDS Integers, Sequences, FiniteSets, TLC

\* None, for a value that is otherwise a string
None == "none"
\* an optional datetime, window or record is << >> (None) or <<value>>
Nothing == << >>
Some(x) == <<x>>

\* ------------------------------------------------------------------------
\* Calendar arithmetic (datetime.date / datetime.datetime of the standard
\* library, as used by schedule.py)
\* ------------------------------------------------------------------------
\* day 0 of the model: a January 1st that is a Monday
Epoch == [year |-> 2024, weekday |-> 0]
EpochYear == Epoch.year
MINUTE == 60
HOUR == 60 * MINUTE
DAY == 24 * HOUR

IsLeap(y) == (y % 4 = 0 /\ y % 100 # 0) \/ y % 400 = 0

DaysInYear(y) == IF IsLeap(y) THEN 366 ELSE 365

RECURSIVE YearStart(_)
\* day number of January 1st of year y
YearStart(y) ==
    IF y = EpochYear THEN 0
    ELSE IF y > EpochYear THEN YearStart(y - 1) + DaysInYear(y - 1)
    ELSE YearStart(y + 1) - DaysInYear(y)

RECURSIVE YearFrom(_, _)
YearFrom(d, y) ==
    IF d < YearStart(y) THEN YearFrom(d, y - 1)
    ELSE IF d >= YearStart(y + 1) THEN YearFrom(d, y + 1)
    ELSE y

\* date.year
YearOfDate(d) == YearFrom(d, EpochYear + (d \div 366))

\* 1-based day of the year
Ordinal(d) == d - YearStart(YearOfDate(d)) + 1

DaysInMonth(y, m) ==
    IF m = 2 THEN (IF IsLeap(y) THEN 29 ELSE 28)
    ELSE IF m \in {4, 6, 9, 11} THEN 30 ELSE 31

RECURSIVE DaysBeforeMonth(_, _)
DaysBeforeMonth(y, m) ==
    IF m = 1 THEN 0 ELSE DaysBeforeMonth(y, m - 1) + DaysInMonth(y, m - 1)

\* date(y, m, dd) as a day number
MkDate(y, m, dd) == YearStart(y) + DaysBeforeMonth(y, m) + dd - 1

RECURSIVE MonthFrom(_, _, _)
MonthFrom(y, o, m) ==
    IF o <= DaysBeforeMonth(y, m) + DaysInMonth(y, m) THEN m
    ELSE MonthFrom(y, o, m + 1)

\* date.month
MonthOfDate(d) == MonthFrom(YearOfDate(d), Ordinal(d), 1)

\* date.weekday(): Monday = 0 ... Sunday = 6
Weekday(d) == (d + Epoch.weekday) % 7

\* number of ISO weeks of year y
WeeksInYear(y) ==
    LET jan1 == Weekday(YearStart(y))
    IN  IF jan1 = 3 \/ (IsLeap(y) /\ jan1 = 2) THEN 53 ELSE 52

\* date.isocalendar().week
IsoWeek(d) ==
    LET y == YearOfDate(d)
        w == (Ordinal(d) - (Weekday(d) + 1) + 10) \div 7
    IN  IF w < 1 THEN WeeksInYear(y - 1)
        ELSE IF w > WeeksInYear(y) THEN 1
        ELSE w

DateOf(t) == t \div DAY
SecOf(t) == t % DAY
YearOf(t) == YearOfDate(DateOf(t))
MonthOf(t) == MonthOfDate(DateOf(t))

\* datetime(y, m, dd, hh, mm, ss)
MkDateTime(y, m, dd, hh, mm, ss) == MkDate(y, m, dd) * DAY + hh * HOUR + mm * MINUTE + ss

\* datetime.combine(date, time)
Combine(d, tod) == d * DAY + tod

Max(a, b) == IF a >= b THEN a ELSE b
Min(a, b) == IF a <= b THEN a ELSE b

\* ------------------------------------------------------------------------
\* TimeRules
\* ------------------------------------------------------------------------
\* A time string is the sequence of its ":"-separated fields, "HH:MM" being
\* <<HH, MM>>; a field that is not a number is written -1.
DefaultTime == 8 * HOUR

\* _parse_time: seconds since midnight; time(8, 0) on ValueError
_parse_time(value) ==
    IF /\ Len(value) = 2
       /\ value[1] \in 0..23
       /\ value[2] \in 0..59
    THEN value[1] * HOUR + value[2] * MINUTE
    ELSE DefaultTime

\* _apply_time: replace hour and minute, zero the seconds
_apply_time(dt_value, target) == DateOf(dt_value) * DAY + target

\* ------------------------------------------------------------------------
\* HolidayBoundsCalculator
\* ------------------------------------------------------------------------
\* a walk that always steps back at least one day
PreviousWeekday_strict(d, wd) == (d - 1) - ((Weekday(d - 1) - wd) % 7)

RECURSIVE PreviousWeekday(_, _)
\* while d.weekday() != wd: d -= timedelta(days=1)
PreviousWeekday(d, wd) ==
    IF Weekday(d) = wd THEN d ELSE PreviousWeekday(d - 1, wd)

\* a split at the day boundary instead of the literal temporal half
Midpoint_day_aligned(effective_start, effective_end) ==
    DateOf(effective_start + (effective_end - effective_start) \div 2) * DAY

\* midpoint = effective_start + (effective_end - effective_start) / 2
\* (the bounds are whole minutes, so the half is a whole number of seconds)
Midpoint(effective_start, effective_end) ==
    effective_start + (effective_end - effective_start) \div 2

\* the dates snapped back to Friday and Sunday and stamped with the arrival
\* and departure times, before the safety fallback
SnappedBounds(holiday, arrival_time, departure_time) ==
    LET start_date == DateOf(holiday.start)
        end_date == IF SecOf(holiday.end) = 0 THEN DateOf(holiday.end) - 1
                    ELSE DateOf(holiday.end)
    IN  [start |-> Combine(PreviousWeekday(start_date, 4), arrival_time),
         end |-> Combine(PreviousWeekday(end_date, 6), departure_time)]

\* _effective_holiday_bounds: [start, end, mid] for a holiday record
\* [name, start, end], given the manager's arrival and departure times
_effective_holiday_bounds(holiday, arrival_time, departure_time) ==
    LET snapped == SnappedBounds(holiday, arrival_time, departure_time)
        inverted == snapped.end <= snapped.start
        effective_start == IF inverted THEN _apply_time(holiday.start, arrival_time)
                           ELSE snapped.start
        effective_end == IF inverted THEN _apply_time(holiday.end, departure_time)
                         ELSE snapped.end
    IN  [start |-> effective_start, end |-> effective_end,
         mid |-> Midpoint(effective_start, effective_end)]

\* ------------------------------------------------------------------------
\* Public holidays
\* ------------------------------------------------------------------------
\* _easter_date: Easter Sunday of a year (anonymous Gregorian algorithm)
_easter_date(year) ==
    LET a == year % 19
        b == year \div 100
        c == year % 100
        d == b \div 4
        e == b % 4
        f == (b + 8) \div 25
        g == (b - f + 1) \div 3
        h == (19 * a + b - d - g + 15) % 30
        i == c \div 4
        k == c % 4
        l == (32 + 2 * e + 2 * i - h - k) % 7
        m == (a + 11 * h + 22 * l) \div 451
        month == (h + l - 7 * m + 114) \div 31
        day == ((h + l - 7 * m + 114) % 31) + 1
    IN  MkDate(year, month, day)

\* get_french_holidays: the dates of the public holidays of a year
get_french_holidays(year) ==
    { MkDate(year, 1, 1), MkDate(year, 5, 1), MkDate(year, 5, 8),
      MkDate(year, 7, 14), MkDate(year, 8, 15), MkDate(year, 11, 1),
      MkDate(year, 11, 11), MkDate(year, 12, 25),
      _easter_date(year) + 1, _easter_date(year) + 39, _easter_date(year) + 50 }

\* ------------------------------------------------------------------------
\* Configuration and data model
\* ------------------------------------------------------------------------
\* CustodyWindow (the label is not modelled)
Window(start, end, source) == [start |-> start, end |-> end, source |-> source]

WEEKDAY_LOOKUP ==
    [monday |-> 0, tuesday |-> 1, wednesday |-> 2, thursday |-> 3,
     friday |-> 4, saturday |-> 5, sunday |-> 6]

\* CUSTODY_TYPES: cycle length and pattern of <<days, state>> segments
CUSTODY_TYPES ==
    [alternate_week |-> [cycle_days |-> 14, pattern |-> << <<7, "on">>, <<7, "off">> >>],
     alternate_week_parity |-> [cycle_days |-> 7, pattern |-> << >>],
     alternate_weekend |-> [cycle_days |-> 7, pattern |-> << >>],
     two_two_three |-> [cycle_days |-> 7,
                        pattern |-> << <<2, "on">>, <<2, "off">>, <<3, "on">> >>],
     two_two_five_five |-> [cycle_days |-> 14,
                            pattern |-> << <<2, "on">>, <<2, "off">>, <<5, "on">>, <<5, "off">> >>],
     custom |-> [cycle_days |-> 14, pattern |-> << >>]]

\* the rule names _summer_windows handles
SUMMER_RULES ==
    {"july_even", "july_odd", "august_even", "august_odd", "july_first_half",
     "july_second_half", "august_first_half", "august_second_half"}

\* self._arrival_time / self._departure_time, parsed in __init__
ArrivalTime(cfg) == _parse_time(cfg.arrival_time)
DepartureTime(cfg) == _parse_time(cfg.departure_time)

Bounds(holiday, cfg) == _effective_holiday_bounds(holiday, ArrivalTime(cfg), DepartureTime(cfg))

\* ------------------------------------------------------------------------
\* Holiday provider (SchoolHolidayClient.async_list). The catalogue is the set
\* of records the API holds for the zone; a request is made per school year
\* and answered according to `response`, and the answers are cached.
\* ------------------------------------------------------------------------
Holiday(name, start, end) == [name |-> name, start |-> start, end |-> end]

\* the school year a record is filed under, named by its first calendar year
SchoolYearOf(h) == IF MonthOf(h.start) < 9 THEN YearOf(h.start) - 1 ELSE YearOf(h.start)

\* how the API answers the request for a school year
ResponseKinds == {"records", "duplicates", "client_error", "bad_json", "malformed"}

\* the school years the explored clocks can ask for
SchoolYears == {2024, 2025, 2026, 2027}

AllRecords == [sy \in SchoolYears |-> "records"]

ResponseOf(response, sy) == IF sy \in DOMAIN response THEN response[sy] ELSE "records"

\* self._cache before any request (one client serves one zone here, so a
\* key is the school year alone)
EmptyCache == << >>

OverlapsYear(h, year) ==
    \/ YearOf(h.start) = year
    \/ YearOf(h.end) = year
    \/ (YearOf(h.start) < year /\ year < YearOf(h.end))

RECURSIVE SortHolidays(_)
SortHolidays(S) ==
    IF S = {} THEN << >>
    ELSE LET first == CHOOSE h \in S : \A g \in S :
                          h.start < g.start \/ (h.start = g.start /\ h.end <= g.end)
         IN  <<first>> \o SortHolidays(S \ {first})

\* a payload that lists every record twice
Twice(seq) == [i \in 1..(2 * Len(seq)) |-> seq[(i + 1) \div 2]]

\* the list built from the payload of one school year: the records that
\* touch the requested calendar year, sorted by start
ParsedRecords(sy, year, provider, kind) ==
    LET holidays == SortHolidays({h \in provider : SchoolYearOf(h) = sy /\ OverlapsYear(h, year)})
    IN  IF kind = "duplicates" THEN Twice(holidays) ELSE holidays

\* for school_year in school_years: a cached list is taken as it is; a
\* request that fails on the network or whose body is not JSON caches an
\* empty list; a JSON body of another shape than {"records": [...]} raises
\* at payload.get / len(records), outside the try
RECURSIVE FetchLoop(_, _, _, _, _, _)
FetchLoop(school_years, year, provider, response, cache, all_holidays) ==
    IF school_years = << >>
    THEN [raised |-> FALSE, holidays |-> all_holidays, cache |-> cache]
    ELSE LET school_year == Head(school_years)
             kind == ResponseOf(response, school_year)
         IN  IF school_year \in DOMAIN cache
             THEN FetchLoop(Tail(school_years), year, provider, response, cache,
                            all_holidays \o cache[school_year])
             ELSE IF kind = "malformed"
             THEN [raised |-> TRUE, holidays |-> << >>, cache |-> cache]
             ELSE LET holidays == IF kind \in {"client_error", "bad_json"} THEN << >>
                                  ELSE ParsedRecords(school_year, year, provider, kind)
                  IN  FetchLoop(Tail(school_years), year, provider, response,
                                (school_year :> holidays) @@ cache,
                                all_holidays \o holidays)

\* sorted(all_holidays, key=lambda h: (h.start, h.end)): stable
HolidayRanks(holidays) ==
    [i \in 1..Len(holidays) |->
        1 + Cardinality({j \in 1..Len(holidays) :
                            \/ holidays[j].start < holidays[i].start
                            \/ (holidays[j].start = holidays[i].start
                                    /\ holidays[j].end < holidays[i].end)
                            \/ (holidays[j].start = holidays[i].start
                                    /\ holidays[j].end = holidays[i].end /\ j < i)})]

SortByStartEnd(holidays) ==
    LET ranks == HolidayRanks(holidays)
    IN  [k \in 1..Len(holidays) |-> holidays[CHOOSE i \in 1..Len(holidays) : ranks[i] = k]]

\* the seen-set loop: the first entry of every (name, start, end) is kept
UniqueHolidays(holidays) ==
    LET kept == {i \in 1..Len(holidays) : \A j \in 1..(i - 1) : holidays[j] # holidays[i]}
    IN  [k \in 1..Cardinality(kept) |->
            holidays[CHOOSE i \in kept : Cardinality({j \in kept : j <= i}) = k]]

\* the names in which "hiver" in h.name.lower() holds
WinterNames == {"Vacances d'Hiver"}

\* the hard-coded zone C winter holidays of 2026
Winter2026 ==
    Holiday("Vacances d'Hiver", MkDateTime(2026, 2, 21, 0, 0, 0), MkDateTime(2026, 3, 9, 23, 59, 59))

IsWinter2026(h) == h.name \in WinterNames /\ YearOf(h.start) = 2026 /\ MonthOf(h.start) = 2

\* the manual override for zone C: the first winter-2026 entry is compared
\* with the hard-coded dates and, when it differs, assigned to; SchoolHoliday
\* is a frozen dataclass, so that the assignment raises FrozenInstanceError.
\* Without such an entry the hard-coded one is appended and the list sorted.
ZoneCOverride(unique_holidays) ==
    LET hits == {i \in 1..Len(unique_holidays) : IsWinter2026(unique_holidays[i])}
        h == unique_holidays[CHOOSE i \in hits : \A j \in hits : i <= j]
    IN  IF hits = {}
        THEN [raised |-> FALSE, holidays |-> SortByStartEnd(Append(unique_holidays, Winter2026))]
        ELSE IF h.start # Winter2026.start \/ h.end # Winter2026.end
        THEN [raised |-> TRUE, holidays |-> << >>]
        ELSE [raised |-> FALSE, holidays |-> unique_holidays]

\* async_list(zone, year) with the school years visited in the given order
\* (they are iterated as a Python set). The answer is the list returned or
\* the fact that the call raised, and the cache the call leaves.
async_list(zone, year, provider, response, cache, school_years) ==
    LET fetched == FetchLoop(school_years, year, provider, response, cache, << >>)
        unique_holidays == UniqueHolidays(SortByStartEnd(fetched.holidays))
        overridden == ZoneCOverride(unique_holidays)
    IN  IF fetched.raised THEN fetched
        ELSE IF zone = "C"
        THEN [raised |-> overridden.raised, holidays |-> overridden.holidays, cache |-> fetched.cache]
        ELSE [raised |-> FALSE, holidays |-> unique_holidays, cache |-> fetched.cache]

\* the orders in which the two school years of a calendar year can be visited
SchoolYearOrders(year) == {<<year - 1, year>>, <<year, year - 1>>}

\* ------------------------------------------------------------------------
\* VacationWindowGenerator
\* ------------------------------------------------------------------------
\* holiday names that contain "été" once lower-cased
SummerNames == {"Vacances d'Ete"}

\* _is_summer_break
_is_summer_break(holiday) ==
    \/ holiday.name \in SummerNames
    \/ MonthOf(holiday.start) \in {7, 8}
    \/ MonthOf(holiday.end) \in {7, 8}

\* _force_vacation_end: a Monday end becomes the Sunday before, at departure time
_force_vacation_end(official_end, departure_time) ==
    IF Weekday(DateOf(official_end)) = 0
    THEN _apply_time(official_end - DAY, departure_time)
    ELSE _apply_time(official_end, departure_time)

ReferenceYearVacations(cfg) == cfg.reference_year_vacations

\* one slice of _summer_windows: the window [window_start, window_end] of a
\* month, clipped to the holiday; end_mode says how the end is stamped
SummerSlice(start, end, window_start, window_end, end_mode, cfg) ==
    IF window_end >= start /\ window_start <= end
    THEN LET raw_end == Min(end, window_end)
             w_end == CASE end_mode = "departure" -> _apply_time(raw_end, DepartureTime(cfg))
                        [] end_mode = "force" -> _force_vacation_end(raw_end, DepartureTime(cfg))
                        [] OTHER -> raw_end
         IN  << Window(_apply_time(Max(start, window_start), ArrivalTime(cfg)), w_end, "summer") >>
    ELSE << >>

\* _summer_windows
_summer_windows(holiday, rule, cfg) ==
    LET b == Bounds(holiday, cfg)
        start == b.start
        end == b.end
        year == YearOf(start)
        is_even_year == year % 2 = 0
        reference_year == ReferenceYearVacations(cfg)
        other_year == (reference_year = "even" /\ ~is_even_year) \/ (reference_year = "odd" /\ is_even_year)
        same_year == (reference_year = "even" /\ is_even_year) \/ (reference_year = "odd" /\ ~is_even_year)
        month_end(m, dd) == MkDateTime(year, m, dd, 23, 59, 59)
        month_start(m, dd) == MkDateTime(year, m, dd, 0, 0, 0)
        windows ==
            CASE rule = "july_even" /\ is_even_year ->
                    SummerSlice(start, end, month_start(7, 1), month_end(7, 31), "departure", cfg)
              [] rule = "july_odd" /\ ~is_even_year ->
                    SummerSlice(start, end, month_start(7, 1), month_end(7, 31), "departure", cfg)
              [] rule = "august_even" /\ is_even_year ->
                    SummerSlice(start, end, month_start(8, 1), month_end(8, 31), "force", cfg)
              [] rule = "august_odd" /\ ~is_even_year ->
                    SummerSlice(start, end, month_start(8, 1), month_end(8, 31), "force", cfg)
              [] rule = "july_first_half" /\ other_year ->
                    SummerSlice(start, end, month_start(7, 1), month_end(7, 15), "raw", cfg)
              [] rule = "july_second_half" /\ same_year ->
                    SummerSlice(start, end, month_start(7, 16), month_end(7, 31), "departure", cfg)
              [] rule = "august_first_half" /\ other_year ->
                    SummerSlice(start, end, month_start(8, 1), month_end(8, 15), "raw", cfg)
              [] rule = "august_second_half" /\ same_year ->
                    SummerSlice(start, end, month_start(8, 16), month_end(8, 31), "force", cfg)
              [] OTHER -> << >>
    IN  SelectSeq(windows, LAMBDA w : w.end > w.start)

\* the automatic rule of _generate_vacation_windows (year parity + split
\* mode): "first_half", "second_half" or None
AutomaticRule(start, cfg) ==
    LET is_even_year == YearOf(start) % 2 = 0
        rule_for_year ==
            IF cfg.vacation_split_mode = "odd_second"
            THEN (IF ~is_even_year THEN "second_half" ELSE "first_half")
            ELSE (IF ~is_even_year THEN "first_half" ELSE "second_half")
        reference_year == ReferenceYearVacations(cfg)
    IN  IF (reference_year = "even" /\ is_even_year) \/ (reference_year = "odd" /\ ~is_even_year)
        THEN rule_for_year
        ELSE None

\* the custody window of one holiday under the automatic rule (the branches
\* of the rule chain that "first_half" and "second_half" select)
AutomaticWindows(b, cfg) ==
    LET rule == AutomaticRule(b.start, cfg)
        is_even_year == YearOf(b.start) % 2 = 0
        window ==
            CASE rule = "first_half" /\ ~is_even_year -> << Window(b.start, b.mid, "vacation") >>
              [] rule = "second_half" /\ is_even_year -> << Window(b.mid, b.end, "vacation") >>
              [] OTHER -> << >>
    IN  SelectSeq(window, LAMBDA w : ~(w.end <= w.start))

\* the summer rule that applies to a holiday, or None
AppliedSummerRule(holiday, cfg) ==
    IF ~_is_summer_break(holiday) THEN None
    ELSE IF cfg.july_rule # None THEN cfg.july_rule
    ELSE IF cfg.august_rule # None THEN cfg.august_rule
    ELSE IF cfg.summer_rule # None /\ cfg.summer_rule \in SUMMER_RULES THEN cfg.summer_rule
    ELSE None

\* the body of the loop of _generate_vacation_windows for one holiday
HolidayWindows(holiday, now, cfg) ==
    LET b == Bounds(holiday, cfg)
        rule == AppliedSummerRule(holiday, cfg)
    IN  IF b.end < now THEN << >>
        ELSE << Window(b.start, b.end, "vacation_filter") >>
             \o (IF rule # None THEN _summer_windows(holiday, rule, cfg)
                 ELSE AutomaticWindows(b, cfg))

RECURSIVE VacationLoop(_, _, _)
VacationLoop(holidays, now, cfg) ==
    IF holidays = << >> THEN << >>
    ELSE HolidayWindows(Head(holidays), now, cfg) \o VacationLoop(Tail(holidays), now, cfg)

\* _generate_vacation_windows
_generate_vacation_windows(now, cfg, holidays) ==
    IF cfg.zone = None THEN << >>
    ELSE VacationLoop(holidays, now, cfg)

\* ------------------------------------------------------------------------
\* PatternWindowGenerator
\* ------------------------------------------------------------------------
ReferenceYearCustody(cfg) == cfg.reference_year_custody

TargetParity(cfg) == IF ReferenceYearCustody(cfg) = "even" THEN 0 ELSE 1

RECURSIVE ParityMonday(_, _)
\* while candidate.isocalendar().week % 2 != parity: candidate += 7 days
ParityMonday(candidate, parity) ==
    IF IsoWeek(candidate) % 2 # parity THEN ParityMonday(candidate + 7, parity) ELSE candidate

\* _first_monday_with_week_parity (a datetime at midnight)
_first_monday_with_week_parity(year, parity) ==
    LET jan1 == YearStart(year)
        monday == jan1 + ((7 - Weekday(jan1)) % 7)
    IN  ParityMonday(monday, parity) * DAY

ParityTypes == {"alternate_weekend", "alternate_week_parity"}

\* _reference_start
_reference_start(now, custody_type, cfg) ==
    LET year == YearOf(now)
        desired == ReferenceYearCustody(cfg)
        reference_year ==
            IF desired = "even" /\ year % 2 # 0 THEN year - 1
            ELSE IF desired = "odd" /\ year % 2 = 0 THEN year - 1
            ELSE year
        base == YearStart(reference_year)
        start_day == IF cfg.start_day \in DOMAIN WEEKDAY_LOOKUP
                     THEN WEEKDAY_LOOKUP[cfg.start_day] ELSE 0
        delta == (start_day - Weekday(base)) % 7
    IN  IF custody_type \in ParityTypes
        THEN _first_monday_with_week_parity(reference_year, TargetParity(cfg))
        ELSE (base + delta) * DAY

\* _is_in_vacation_period
_is_in_vacation_period(check_date, vacation_windows) ==
    \E i \in 1..Len(vacation_windows) :
        vacation_windows[i].start <= check_date /\ check_date <= vacation_windows[i].end

RECURSIVE AdvancePointer(_, _, _)
\* the loop that moves the pointer close to now, two weeks at a time
AdvancePointer(pointer, now, target_parity) ==
    IF pointer < now - 14 * DAY
    THEN LET jumped == pointer + 14 * DAY
             fixed == IF IsoWeek(DateOf(jumped)) % 2 # target_parity
                      THEN jumped + 7 * DAY ELSE jumped
         IN  AdvancePointer(fixed, now, target_parity)
    ELSE pointer

\* a weekend window bridged whether or not it lies in a vacation period
WeekendWindow_always_bridged(pointer, holidays, vacation_windows, cfg) ==
    LET friday == pointer + 4 * DAY
        sunday == pointer + 6 * DAY
        monday == pointer + 7 * DAY
        thursday == pointer + 3 * DAY
        window_start == IF DateOf(friday) \in holidays THEN thursday ELSE friday
        window_end == IF DateOf(monday) \in holidays THEN monday ELSE sunday
    IN  Window(_apply_time(window_start, ArrivalTime(cfg)),
               _apply_time(window_end, DepartureTime(cfg)), "pattern")

\* the window of one target week of alternate_weekend
WeekendWindow(pointer, holidays, vacation_windows, cfg) ==
    LET friday == pointer + 4 * DAY
        sunday == pointer + 6 * DAY
        monday == pointer + 7 * DAY
        thursday == pointer + 3 * DAY
        weekend_in_vacation ==
            \/ _is_in_vacation_period(friday, vacation_windows)
            \/ _is_in_vacation_period(sunday, vacation_windows)
            \/ _is_in_vacation_period(monday, vacation_windows)
        friday_is_holiday == DateOf(friday) \in holidays
        monday_is_holiday == DateOf(monday) \in holidays
        window_start == IF ~weekend_in_vacation /\ friday_is_holiday THEN thursday ELSE friday
        window_end == IF ~weekend_in_vacation /\ monday_is_holiday THEN monday ELSE sunday
    IN  Window(_apply_time(window_start, ArrivalTime(cfg)),
               _apply_time(window_end, DepartureTime(cfg)), "pattern")

\* a week window that never bridges a public holiday
WeekWindow_no_bridge(pointer, holidays, vacation_windows, cfg) ==
    Window(_apply_time(pointer, ArrivalTime(cfg)),
           _apply_time(pointer + 6 * DAY, DepartureTime(cfg)), "pattern")

\* the window of one target week of alternate_week_parity
WeekWindow(pointer, holidays, vacation_windows, cfg) ==
    LET monday == pointer
        sunday == pointer + 6 * DAY
        next_monday == pointer + 7 * DAY
        previous_friday == pointer - 3 * DAY
        friday == pointer + 4 * DAY
        week_in_vacation ==
            \/ _is_in_vacation_period(monday, vacation_windows)
            \/ _is_in_vacation_period(sunday, vacation_windows)
            \/ _is_in_vacation_period(next_monday, vacation_windows)
        monday_is_holiday == DateOf(monday) \in holidays
        friday_is_holiday == DateOf(friday) \in holidays
        window_start == IF ~week_in_vacation /\ monday_is_holiday THEN previous_friday ELSE monday
        window_end == IF ~week_in_vacation /\ friday_is_holiday THEN next_monday ELSE sunday
    IN  Window(_apply_time(window_start, ArrivalTime(cfg)),
               _apply_time(window_end, DepartureTime(cfg)), "pattern")

RECURSIVE ParityLoop(_, _, _, _, _, _)
\* while pointer < horizon: one window per week of the target parity
ParityLoop(pointer, horizon, custody_type, holidays, vacation_windows, cfg) ==
    IF pointer < horizon
    THEN (IF IsoWeek(DateOf(pointer)) % 2 = TargetParity(cfg)
          THEN << IF custody_type = "alternate_weekend"
                  THEN WeekendWindow(pointer, holidays, vacation_windows, cfg)
                  ELSE WeekWindow(pointer, holidays, vacation_windows, cfg) >>
          ELSE << >>)
         \o ParityLoop(pointer + 7 * DAY, horizon, custody_type, holidays, vacation_windows, cfg)
    ELSE << >>

RECURSIVE SegmentWindows(_, _, _, _)
\* for segment in pattern: one window per "on" segment of a cycle
SegmentWindows(pattern, i, segment_start, cfg) ==
    IF i > Len(pattern) THEN << >>
    ELSE LET days == pattern[i][1]
             segment_end == segment_start + (days - 1) * DAY
         IN  (IF pattern[i][2] = "on"
              THEN << Window(_apply_time(segment_start, ArrivalTime(cfg)),
                             _apply_time(segment_end, DepartureTime(cfg)), "pattern") >>
              ELSE << >>)
             \o SegmentWindows(pattern, i + 1, segment_start + days * DAY, cfg)

\* while pointer < horizon: the segments of each cycle, cycle after cycle
\* (the cycles are counted first, so that a reference two years back is
\* unrolled without deep recursion)
CycleLoop(pointer, horizon, type_def, cfg) ==
    LET span == type_def.cycle_days * DAY
        cycles == IF pointer < horizon THEN (horizon - pointer + span - 1) \div span ELSE 0
        per_cycle == Len(SegmentWindows(type_def.pattern, 1, pointer, cfg))
    IN  [k \in 1..(cycles * per_cycle) |->
            SegmentWindows(type_def.pattern, 1, pointer + ((k - 1) \div per_cycle) * span,
                           cfg)[((k - 1) % per_cycle) + 1]]

HorizonDays == 90

\* _generate_pattern_windows
_generate_pattern_windows(now, vacation_windows, cfg) ==
    LET custody_type == cfg.custody_type
        type_def == IF custody_type \in DOMAIN CUSTODY_TYPES
                    THEN CUSTODY_TYPES[custody_type] ELSE CUSTODY_TYPES["alternate_week"]
        horizon == now + HorizonDays * DAY
        holidays == get_french_holidays(YearOf(now)) \cup get_french_holidays(YearOf(now) + 1)
        reference == _reference_start(now, custody_type, cfg)
    IN  IF custody_type \in ParityTypes
        THEN ParityLoop(AdvancePointer(reference, now, TargetParity(cfg)), horizon,
                        custody_type, holidays, vacation_windows, cfg)
        ELSE CycleLoop(reference, horizon, type_def, cfg)

\* ------------------------------------------------------------------------
\* WindowResolver
\* ------------------------------------------------------------------------
\* an overlap test that counts touching edges as overlap
Overlaps_closed(w, v) == w.start <= v.end /\ w.end >= v.start

\* strict interval overlap of a pattern window with a period
Overlaps(w, v) == w.start < v.end /\ w.end > v.start

\* _filter_windows_by_vacations
_filter_windows_by_vacations(pattern_windows, vacation_windows) ==
    LET vacation_periods == SelectSeq(vacation_windows, LAMBDA vw : vw.source # "vacation_filter")
    IN  IF vacation_windows = << >> \/ vacation_periods = << >>
        THEN pattern_windows
        ELSE SelectSeq(pattern_windows,
                 LAMBDA pw : ~\E i \in 1..Len(vacation_periods) : Overlaps(pw, vacation_periods[i]))

\* a configured or service-supplied range [start, end] becomes a window
\* unless a bound is missing or end <= start
RECURSIVE RangesToWindows(_, _)
RangesToWindows(ranges, source) ==
    IF ranges = << >> THEN << >>
    ELSE LET rng == Head(ranges)
         IN  (IF rng.start = Nothing \/ rng.end = Nothing THEN << >>
              ELSE IF rng.end[1] <= rng.start[1] THEN << >>
              ELSE << Window(rng.start[1], rng.end[1], source) >>)
             \o RangesToWindows(Tail(ranges), source)

\* custom ranges loaded as manual windows
_load_custom_rules_as_manual(cfg) == RangesToWindows(cfg.custom_rules, "manual")

\* _load_custom_rules
_load_custom_rules(cfg) == RangesToWindows(cfg.custom_rules, "custom")

\* a display list that keeps the filter windows
VacationDisplayWindows_unfiltered(vacation_windows) == vacation_windows

\* vacation_display_windows of _build_windows
VacationDisplayWindows(vacation_windows) ==
    SelectSeq(vacation_windows, LAMBDA w : w.source # "vacation_filter")

\* the merge and the one-day retention filter of _build_windows
MergeWindows(vacation_windows, pattern_windows, custom_windows, now) ==
    LET filtered_pattern_windows == _filter_windows_by_vacations(pattern_windows, vacation_windows)
        merged == VacationDisplayWindows(vacation_windows) \o custom_windows \o filtered_pattern_windows
    IN  SelectSeq(merged, LAMBDA w : w.end > now - DAY)

\* ------------------------------------------------------------------------
\* RecurringExceptionGenerator
\* ------------------------------------------------------------------------
HorizonRecurringDays == 365

\* while occ_date <= range_end: one window per occurrence, 7 days apart (the
\* occurrences are counted first, so that a year of them is unrolled without
\* deep recursion)
OccurrenceLoop(occ_date, range_end, start_time, end_time) ==
    LET occurrences == IF occ_date <= range_end THEN (range_end - occ_date) \div 7 + 1 ELSE 0
        all == [k \in 1..occurrences |->
                   Window(Combine(occ_date + 7 * (k - 1), start_time),
                          Combine(occ_date + 7 * (k - 1), end_time), "exception_recurring")]
    IN  SelectSeq(all, LAMBDA w : w.end > w.start)

\* a rule evaluated from the day of now, without the day before
RecurringRuleWindows_from_today(item, now) ==
    LET horizon_end == DateOf(now) + HorizonRecurringDays
        range_start == DateOf(now)
        start_time == _parse_time(item.start_time)
        end_time == _parse_time(item.end_time)
        current == IF item.start_date # Nothing THEN Max(range_start, item.start_date[1]) ELSE range_start
        range_end == IF item.end_date # Nothing THEN Min(horizon_end, item.end_date[1]) ELSE horizon_end
    IN  IF item.weekday = Nothing THEN << >>
        ELSE IF item.weekday[1] < 0 \/ item.weekday[1] > 6 THEN << >>
        ELSE IF end_time <= start_time THEN << >>
        ELSE IF current > range_end THEN << >>
        ELSE OccurrenceLoop(current + ((item.weekday[1] - Weekday(current)) % 7),
                            range_end, start_time, end_time)

\* the body of the loop of _build_recurring_windows for one rule
RecurringRuleWindows(item, now) ==
    LET horizon_end == DateOf(now) + HorizonRecurringDays
        range_start == DateOf(now) - 1
        start_time == _parse_time(item.start_time)
        end_time == _parse_time(item.end_time)
        current == IF item.start_date # Nothing THEN Max(range_start, item.start_date[1]) ELSE range_start
        range_end == IF item.end_date # Nothing THEN Min(horizon_end, item.end_date[1]) ELSE horizon_end
    IN  IF item.weekday = Nothing THEN << >>
        ELSE IF item.weekday[1] < 0 \/ item.weekday[1] > 6 THEN << >>
        ELSE IF end_time <= start_time THEN << >>
        ELSE IF current > range_end THEN << >>
        ELSE OccurrenceLoop(current + ((item.weekday[1] - Weekday(current)) % 7),
                            range_end, start_time, end_time)

RECURSIVE RecurringLoop(_, _)
RecurringLoop(exceptions, now) ==
    IF exceptions = << >> THEN << >>
    ELSE RecurringRuleWindows(Head(exceptions), now) \o RecurringLoop(Tail(exceptions), now)

\* _build_recurring_windows
_build_recurring_windows(now, cfg) == RecurringLoop(cfg.exceptions_recurring, now)

\* ------------------------------------------------------------------------
\* PresenceEvaluator
\* ------------------------------------------------------------------------
GraceSeconds == 60

\* the place of each window in the sorted list: one more than the number of
\* windows that start earlier, or start at the same time and come earlier in
\* the list (list.sort is stable)
SortRanks(windows) ==
    [i \in 1..Len(windows) |->
        1 + Cardinality({j \in 1..Len(windows) :
                            \/ windows[j].start < windows[i].start
                            \/ (windows[j].start = windows[i].start /\ j < i)})]

\* the windows laid out by their places
PlaceByRank(windows, ranks) ==
    [k \in 1..Len(windows) |-> windows[CHOOSE i \in 1..Len(windows) : ranks[i] = k]]

\* a list left in the order of its concatenation
SortByStart_unsorted(windows) == windows

\* windows.sort(key=lambda window: window.start)
SortByStart(windows) == PlaceByRank(windows, SortRanks(windows))

\* next((x for x in seq if P(x)), None)
FirstWhere(seq, P(_)) ==
    LET hits == {i \in 1..Len(seq) : P(seq[i])}
    IN  IF hits = {} THEN Nothing
        ELSE Some(seq[CHOOSE i \in hits : \A j \in hits : i <= j])

\* an override that expires as soon as now reaches its end
_evaluate_override_eager(now, override) ==
    IF override = Nothing THEN [state |-> Nothing, override |-> Nothing]
    ELSE IF override[1].until # Nothing /\ now >= override[1].until[1]
         THEN [state |-> Nothing, override |-> Nothing]
    ELSE [state |-> Some(override[1].state = "on"), override |-> override]

\* _evaluate_override: [state: the optional boolean returned,
\*                      override: what self._presence_override is afterwards]
_evaluate_override(now, override) ==
    IF override = Nothing THEN [state |-> Nothing, override |-> Nothing]
    ELSE IF override[1].until # Nothing /\ now > override[1].until[1]
         THEN [state |-> Nothing, override |-> Nothing]
    ELSE [state |-> Some(override[1].state = "on"), override |-> override]

\* the window an end belongs to: next((w for w in windows if w.end == end))
MatchingStart(windows, end, fallback) ==
    LET m == FirstWhere(windows, LAMBDA w : w.end = end)
    IN  IF m # Nothing THEN Some(m[1].start) ELSE fallback

\* the fall-forward used when a departure candidate is within the grace margin
FallForward(windows, now, next_window, margin) ==
    LET nd0 == IF next_window # Nothing THEN Some(next_window[1].end) ELSE Nothing
        na0 == IF next_window # Nothing THEN Some(next_window[1].start) ELSE Nothing
        later == FirstWhere(windows, LAMBDA w : w.end > now + margin)
    IN  IF nd0 # Nothing THEN [next_departure |-> nd0, next_arrival |-> na0]
        ELSE IF later = Nothing THEN [next_departure |-> Nothing, next_arrival |-> na0]
        ELSE [next_departure |-> Some(later[1].end),
              next_arrival |-> MatchingStart(windows, later[1].end, na0)]

\* the presence part of async_calculate, from the sorted window list, with
\* the margin added to now in its comparisons
EvaluateWithMargin(sorted_windows, now, override, margin) ==
    LET windows == SelectSeq(sorted_windows, LAMBDA w : w.end > now + margin)
        current0 == FirstWhere(windows,
                        LAMBDA w : w.start <= now /\ now < w.end /\ w.end > now + margin)
        next_window == FirstWhere(windows, LAMBDA w : w.start > now /\ w.end > now)
        ov == _evaluate_override(now, override)
        override_state == ov.state
        ending == current0 # Nothing /\ current0[1].end <= now + margin
        is_present == IF ending /\ override_state = Nothing THEN FALSE
                      ELSE IF override_state # Nothing THEN override_state[1]
                      ELSE current0 # Nothing
        current_window == IF ending /\ override_state = Nothing THEN Nothing ELSE current0
        after(t) == LET w == FirstWhere(windows, LAMBDA x : x.start > t)
                    IN  IF w = Nothing THEN Nothing ELSE Some(w[1].start)
        from_next == [next_departure |-> IF next_window # Nothing THEN Some(next_window[1].end) ELSE Nothing,
                      next_arrival |-> IF next_window # Nothing THEN Some(next_window[1].start) ELSE Nothing]
        absent ==
            IF from_next.next_departure # Nothing /\ from_next.next_departure[1] <= now + margin
            THEN LET later == FirstWhere(windows, LAMBDA w : w.end > now + margin)
                 IN  IF later = Nothing THEN [next_departure |-> Nothing, next_arrival |-> Nothing]
                     ELSE [next_departure |-> Some(later[1].end),
                           next_arrival |-> MatchingStart(windows, later[1].end, from_next.next_arrival)]
            ELSE from_next
        nexts ==
            IF is_present
            THEN IF current_window # Nothing
                 THEN IF current_window[1].end > now + margin
                      THEN [next_departure |-> Some(current_window[1].end),
                            next_arrival |-> after(current_window[1].end)]
                      ELSE FallForward(windows, now, next_window, margin)
                 ELSE IF override_state = Some(TRUE) /\ ov.override # Nothing /\ ov.override[1].until # Nothing
                 THEN IF ov.override[1].until[1] > now + margin
                      THEN [next_departure |-> ov.override[1].until,
                            next_arrival |-> after(ov.override[1].until[1])]
                      ELSE FallForward(windows, now, next_window, margin)
                 ELSE from_next
            ELSE absent
    IN  [is_present |-> is_present,
         next_arrival |-> nexts.next_arrival,
         next_departure |-> nexts.next_departure,
         windows |-> windows,
         override |-> ov.override,
         override_state |-> override_state]

\* an evaluation without the one-minute margin
Evaluate_no_margin(sorted_windows, now, override) ==
    EvaluateWithMargin(sorted_windows, now, override, 0)

\* an evaluation with a margin of half a minute
Evaluate_half_margin(sorted_windows, now, override) ==
    EvaluateWithMargin(sorted_windows, now, override, 30)

\* the presence part of async_calculate: the margin is timedelta(minutes=1)
Evaluate(sorted_windows, now, override) ==
    EvaluateWithMargin(sorted_windows, now, override, GraceSeconds)

\* a days_remaining that is 0 when there is no next departure or arrival
DaysRemaining_or_zero(is_present, next_arrival, next_departure, now) ==
    LET target_dt == IF is_present THEN next_departure ELSE next_arrival
    IN  IF target_dt = Nothing THEN Some(0)
        ELSE Some(Max(0, (200 * (target_dt[1] - now) + DAY) \div (2 * DAY)))

\* days_remaining: max(0, round(delta / 86400, 2)) of the time to the next
\* departure (present) or arrival (absent), in hundredths of a day; a delta
\* exactly halfway between two hundredths is rounded upwards here (the float
\* quotient decides it in the code)
DaysRemaining(is_present, next_arrival, next_departure, now) ==
    LET target_dt == IF is_present THEN next_departure ELSE next_arrival
    IN  IF target_dt = Nothing THEN Nothing
        ELSE Some(Max(0, (200 * (target_dt[1] - now) + DAY) \div (2 * DAY)))

\* ------------------------------------------------------------------------
\* PeriodClassifier
\* ------------------------------------------------------------------------
RECURSIVE PeriodLoop(_, _, _)
\* for holiday in holidays: the first one whose effective bounds contain now
PeriodLoop(holidays, now, cfg) ==
    IF holidays = << >> THEN [period |-> "school", vacation_name |-> None]
    ELSE IF Bounds(Head(holidays), cfg).start <= now /\ now <= Bounds(Head(holidays), cfg).end
         THEN [period |-> "vacation", vacation_name |-> Head(holidays).name]
         ELSE PeriodLoop(Tail(holidays), now, cfg)

\* _determine_period
_determine_period(now, cfg, holidays) ==
    IF cfg.zone = None THEN [period |-> "school", vacation_name |-> None]
    ELSE PeriodLoop(holidays, now, cfg)

\* ------------------------------------------------------------------------
\* NextVacationResolver
\* ------------------------------------------------------------------------
\* sorted(holidays, key=effective start): stable
SortByEffectiveStart(holidays, cfg) ==
    LET key == [i \in 1..Len(holidays) |-> Bounds(holidays[i], cfg).start]
        ranks == [i \in 1..Len(holidays) |->
                     1 + Cardinality({j \in 1..Len(holidays) :
                                         key[j] < key[i] \/ (key[j] = key[i] /\ j < i)})]
    IN  [k \in 1..Len(holidays) |-> holidays[CHOOSE i \in 1..Len(holidays) : ranks[i] = k]]

\* _custody_segment_for_holiday: (seg_start, seg_end)
_custody_segment_for_holiday(holiday_obj, cfg) ==
    LET b == Bounds(holiday_obj, cfg)
        summer_rule == IF cfg.summer_rule \in SUMMER_RULES THEN cfg.summer_rule ELSE None
        is_even_year == YearOf(b.start) % 2 = 0
        reference_year == ReferenceYearVacations(cfg)
        rule_for_year ==
            IF cfg.vacation_split_mode = "odd_second"
            THEN (IF ~is_even_year THEN "second_half" ELSE "first_half")
            ELSE (IF ~is_even_year THEN "first_half" ELSE "second_half")
    IN  IF (summer_rule # None \/ cfg.july_rule # None \/ cfg.august_rule # None)
               /\ _is_summer_break(holiday_obj)
        THEN [start |-> b.start, end |-> b.end]
        ELSE IF (reference_year = "even" /\ is_even_year) \/ (reference_year = "odd" /\ ~is_even_year)
        THEN (IF rule_for_year = "second_half" THEN [start |-> b.mid, end |-> b.end]
              ELSE [start |-> b.start, end |-> b.mid])
        ELSE [start |-> b.start, end |-> b.start]

\* no next vacation
NoVacation == [name |-> None, start |-> Nothing, end |-> Nothing]

\* _get_next_vacation: [name, start, end] of the segment returned
_get_next_vacation(now, cfg, holidays) ==
    IF cfg.zone = None THEN NoVacation
    ELSE LET sorted_holidays == SortByEffectiveStart(holidays, cfg)
             current == FirstWhere(sorted_holidays,
                                   LAMBDA h : Bounds(h, cfg).start <= now /\ now <= Bounds(h, cfg).end)
             next_vacation == FirstWhere(sorted_holidays,
                                         LAMBDA h : _custody_segment_for_holiday(h, cfg).start > now)
             chosen == IF current # Nothing THEN current ELSE next_vacation
         IN  IF chosen = Nothing THEN NoVacation
             ELSE [name |-> chosen[1].name,
                   start |-> Some(_custody_segment_for_holiday(chosen[1], cfg).start),
                   end |-> Some(_custody_segment_for_holiday(chosen[1], cfg).end)]

\* ------------------------------------------------------------------------
\* The manager as a state machine
\* ------------------------------------------------------------------------
VARIABLES
    config,             \* self._config
    provider,           \* the holiday records the provider holds for the zone
    clock,              \* dt_util.now()
    manual_windows,     \* self._manual_windows
    presence_override,  \* self._presence_override
    pc,                 \* "idle", or "fetching" while async_calculate awaits the provider
    calc_now,           \* the now argument of the computation in progress or last finished
    result,             \* the CustodyComputation the last call returned, until the next call
    trace,              \* what the last computation generated on the way
    override_call,      \* the last override_presence call that is still in force
    ticks,              \* number of clock steps taken
    calls,              \* number of service calls made
    holiday_in,         \* the holiday record handed to _effective_holiday_bounds
    bounds_out,         \* what it returned, if it has been applied
    response,           \* how the API answers the request for each school year
    cache,              \* SchoolHolidayClient._cache: school year -> the list stored
    last_state,         \* CustodyScheduleCoordinator._last_state
    events,             \* the events the update in progress or last finished fired
    update              \* "none", "running", or how the last update ended: "ok", "failed"

client_vars == <<response, cache>>

coordinator_vars == <<last_state, events, update>>

vars == <<config, provider, clock, manual_windows, presence_override, pc, calc_now,
          result, trace, override_call, ticks, calls, holiday_in, bounds_out,
          client_vars, coordinator_vars>>

manager_vars == <<config, provider, clock, manual_windows, presence_override, pc, calc_now,
                  result, trace, override_call, ticks, calls, client_vars, coordinator_vars>>

\* bounds of the exploration
MaxTicks == 2
MaxCalls == 1

\* the trace of a computation that has generated nothing yet
NoTrace ==
    [vacation_windows |-> << >>, pattern_windows |-> << >>, all_windows |-> << >>,
     override_state |-> Nothing, override_call |-> Nothing,
     manual_windows |-> << >>, start_manual |-> << >>, start_override |-> Nothing,
     holidays |-> << >>]

\* how far the clock moves in one step
TickSteps == {30, 15 * MINUTE, DAY}

\* override_presence: the service accepts "on"/"off" and an optional number
\* of minutes (at least 1)
OverrideStates == {"on", "off"}
OverrideDurations == {Nothing, Some(1 * MINUTE), Some(60 * MINUTE)}

\* set_manual_dates: ranges given relative to the clock; a bound may be missing
ManualRange(clk, a, b) ==
    [start |-> IF a = Nothing THEN Nothing ELSE Some(clk + a[1]),
     end |-> IF b = Nothing THEN Nothing ELSE Some(clk + b[1])]
ManualOffsets ==
    { <<Some(0 - HOUR), Some(30)>>,       \* ends within the grace minute
      <<Some(30), Some(45)>>,             \* starts and ends within the grace minute
      <<Some(0 - HOUR), Some(2 * HOUR)>>, \* around the clock
      <<Some(HOUR), Some(2 * HOUR)>>,     \* ahead
      <<Some(30), Nothing>>,              \* a missing bound
      <<Some(2 * HOUR), Some(HOUR)>> }    \* end before start
ManualRangeLists(clk) ==
    {<< >>} \cup {<<ManualRange(clk, o[1], o[2])>> : o \in ManualOffsets}
            \cup {<<ManualRange(clk, Some(0 - HOUR), Some(30)),
                    ManualRange(clk, Some(30), Some(45))>>}

Tick(step) ==
    /\ ticks < MaxTicks
    /\ clock' = clock + step
    /\ ticks' = ticks + 1
    /\ UNCHANGED <<config, provider, manual_windows, presence_override, pc, calc_now,
                   result, trace, override_call, calls, holiday_in, bounds_out,
                   client_vars, coordinator_vars>>

\* a service call runs between computations, or while one awaits the provider.
\* The handlers of __init__.py call the manager's method and then request a
\* refresh from the coordinator, which runs async_calculate at once or after
\* its debounce delay: that computation is CalculateStart/CalculateFinish,
\* taken at the same clock value or after clock steps.
Suspended ==
    /\ pc = "fetching"
    /\ config.zone # None
    /\ \E school_year \in {YearOf(calc_now) - 1, YearOf(calc_now)} : school_year \notin DOMAIN cache

ServiceCallAllowed == calls < MaxCalls /\ (pc = "idle" \/ Suspended)

\* a set_manual_windows that adds to the stored windows
set_manual_windows_adding(ranges) ==
    /\ ServiceCallAllowed
    /\ manual_windows' = manual_windows \o RangesToWindows(ranges, "manual")
    /\ calls' = calls + 1
    /\ UNCHANGED <<config, provider, clock, presence_override, pc, calc_now, result,
                   trace, override_call, ticks, holiday_in, bounds_out,
                   client_vars, coordinator_vars>>

\* set_manual_windows
set_manual_windows(ranges) ==
    /\ ServiceCallAllowed
    /\ manual_windows' = RangesToWindows(ranges, "manual")
    /\ calls' = calls + 1
    /\ UNCHANGED <<config, provider, clock, presence_override, pc, calc_now, result,
                   trace, override_call, ticks, holiday_in, bounds_out,
                   client_vars, coordinator_vars>>

\* override_presence
override_presence(state, duration) ==
    /\ ServiceCallAllowed
    /\ LET until == IF duration # Nothing THEN Some(clock + duration[1]) ELSE Nothing
       IN  /\ presence_override' = Some([state |-> state, until |-> until])
           /\ override_call' = Some([state |-> state, t0 |-> clock, duration |-> duration])
    /\ calls' = calls + 1
    /\ UNCHANGED <<config, provider, clock, manual_windows, pc, calc_now, result, trace,
                   ticks, holiday_in, bounds_out,
                   client_vars, coordinator_vars>>

\* clear_override (a method of the manager, not a service: it is not counted)
clear_override ==
    /\ pc = "idle" \/ Suspended
    /\ presence_override # Nothing
    /\ presence_override' = Nothing
    /\ override_call' = Nothing
    /\ UNCHANGED <<config, provider, clock, manual_windows, pc, calc_now, result, trace,
                   ticks, calls, holiday_in, bounds_out,
                   client_vars, coordinator_vars>>

\* CustodyScheduleCoordinator._fire_events: the events fired for new_state,
\* in the order they are fired
_fire_events(last_state_, new_state) ==
    IF last_state_ = Nothing THEN << >>
    ELSE LET last == last_state_[1]
             presence ==
                 IF last.is_present # new_state.is_present
                 THEN << [event |-> IF new_state.is_present THEN "custody_arrival"
                                    ELSE "custody_departure",
                          holiday |-> None] >>
                 ELSE << >>
             period ==
                 IF last.current_period # new_state.current_period
                        /\ new_state.current_period = "vacation"
                 THEN << [event |-> "custody_vacation_start", holiday |-> new_state.vacation_name] >>
                 ELSE IF last.current_period # new_state.current_period
                        /\ new_state.current_period = "school"
                 THEN << [event |-> "custody_vacation_end", holiday |-> last.vacation_name] >>
                 ELSE << >>
         IN  presence \o period

\* _async_update_data calls async_calculate(dt_util.now()), which runs up to
\* its first await: now is taken, the provider is asked
CalculateStart ==
    /\ pc = "idle"
    /\ pc' = "fetching"
    /\ calc_now' = clock
    /\ result' = Nothing
    /\ trace' = [NoTrace EXCEPT !.start_manual = manual_windows,
                                 !.start_override = presence_override]
    /\ events' = << >>
    /\ update' = "running"
    /\ UNCHANGED <<config, provider, clock, manual_windows, presence_override,
                   override_call, ticks, calls, holiday_in, bounds_out,
                   client_vars, last_state>>

\* what self._holidays.async_list(zone, now.year) answers to the computation
\* in progress (it is not called when no zone is configured)
ProviderAnswer(school_years) ==
    IF config.zone = None
    THEN [raised |-> FALSE, holidays |-> << >>, cache |-> cache]
    ELSE async_list(config.zone, YearOf(calc_now), provider, response, cache, school_years)

\* the answers possible, over the orders in which the school years are visited
ProviderAnswers ==
    {ProviderAnswer(school_years) : school_years \in SchoolYearOrders(YearOf(calc_now))}

\* async_calculate from the provider's answer to the returned CustodyComputation
\* (each intermediate list is bound once, as the code's local variables are),
\* then the rest of _async_update_data: events are fired and the state kept
CalculateFinish ==
    /\ pc = "fetching"
    /\ \E answer \in ProviderAnswers :
       /\ ~answer.raised
       /\ cache' = answer.cache
       /\ \E vacation_windows \in {_generate_vacation_windows(calc_now, config, answer.holidays)} :
          \E pattern_windows \in {_generate_pattern_windows(calc_now, vacation_windows, config)} :
          \E built \in {MergeWindows(vacation_windows, pattern_windows,
                                     _load_custom_rules(config), calc_now)} :
          \E all_windows \in {SortByStart(built \o manual_windows
                                           \o _build_recurring_windows(calc_now, config))} :
          \E ev \in {Evaluate(all_windows, calc_now, presence_override)} :
          \E classified \in {_determine_period(calc_now, config, answer.holidays)} :
          \E vacation \in {_get_next_vacation(calc_now, config, answer.holidays)} :
          \E state \in {[is_present |-> ev.is_present,
                         next_arrival |-> ev.next_arrival,
                         next_departure |-> ev.next_departure,
                         days_remaining |-> DaysRemaining(ev.is_present, ev.next_arrival,
                                                          ev.next_departure, calc_now),
                         current_period |-> classified.period,
                         vacation_name |-> classified.vacation_name,
                         next_vacation_name |-> vacation.name,
                         next_vacation_start |-> vacation.start,
                         next_vacation_end |-> vacation.end,
                         windows |-> ev.windows]} :
              /\ result' = Some(state)
              /\ events' = _fire_events(last_state, state)
              /\ last_state' = Some(state)
              /\ presence_override' = ev.override
              /\ trace' = [vacation_windows |-> vacation_windows,
                           pattern_windows |-> pattern_windows,
                           all_windows |-> all_windows,
                           override_state |-> ev.override_state,
                           override_call |-> override_call,
                           manual_windows |-> manual_windows,
                           start_manual |-> trace.start_manual,
                           start_override |-> trace.start_override,
                           holidays |-> answer.holidays]
    /\ pc' = "idle"
    /\ update' = "ok"
    /\ UNCHANGED <<config, provider, clock, manual_windows, calc_now, override_call,
                   ticks, calls, holiday_in, bounds_out, response>>

\* an update that, when async_calculate raises, goes on with a computation
\* without windows: it is returned, compared with the last state and kept
CalculateFail_partial ==
    /\ pc = "fetching"
    /\ \E answer \in ProviderAnswers :
           /\ answer.raised
           /\ cache' = answer.cache
    /\ \E state \in {[is_present |-> FALSE, next_arrival |-> Nothing,
                      next_departure |-> Nothing, days_remaining |-> Nothing,
                      current_period |-> "school", vacation_name |-> None,
                      next_vacation_name |-> None, next_vacation_start |-> Nothing,
                      next_vacation_end |-> Nothing, windows |-> << >>]} :
           /\ result' = Some(state)
           /\ events' = _fire_events(last_state, state)
           /\ last_state' = Some(state)
    /\ pc' = "idle"
    /\ update' = "failed"
    /\ UNCHANGED <<config, provider, clock, manual_windows, presence_override, calc_now,
                   trace, override_call, ticks, calls, holiday_in, bounds_out, response>>

\* async_list raises inside async_calculate: _async_update_data turns the
\* exception into UpdateFailed before anything else has run
CalculateFail ==
    /\ pc = "fetching"
    /\ \E answer \in ProviderAnswers :
           /\ answer.raised
           /\ cache' = answer.cache
    /\ pc' = "idle"
    /\ update' = "failed"
    /\ UNCHANGED <<config, provider, clock, manual_windows, presence_override, calc_now,
                   result, trace, override_call, ticks, calls, holiday_in, bounds_out,
                   response, last_state, events>>

Next ==
    \/ \E step \in TickSteps : Tick(step)
    \/ \E ranges \in ManualRangeLists(clock) : set_manual_windows(ranges)
    \/ \E state \in OverrideStates, duration \in OverrideDurations : override_presence(state, duration)
    \/ clear_override
    \/ CalculateStart
    \/ CalculateFinish
    \/ CalculateFail

\* ------------------------------------------------------------------------
\* Initial states: configurations, holiday data and clocks
\* ------------------------------------------------------------------------
BaseConfig ==
    [custody_type |-> "alternate_weekend",
     reference_year_custody |-> "even",
     reference_year_vacations |-> "odd",
     vacation_split_mode |-> "odd_first",
     start_day |-> "monday",
     arrival_time |-> <<16, 15>>,
     departure_time |-> <<19, 0>>,
     zone |-> "A",
     summer_rule |-> None,
     july_rule |-> None,
     august_rule |-> None,
     exceptions_recurring |-> << >>,
     custom_rules |-> << >>]

Toussaint2025 ==
    Holiday("Vacances de la Toussaint", MkDateTime(2025, 10, 18, 0, 0, 0), MkDateTime(2025, 11, 3, 0, 0, 0))
Noel2025 ==
    Holiday("Vacances de Noel", MkDateTime(2025, 12, 20, 0, 0, 0), MkDateTime(2026, 1, 5, 0, 0, 0))
Hiver2026 ==
    Holiday("Vacances d'Hiver", MkDateTime(2026, 2, 21, 0, 0, 0), MkDateTime(2026, 3, 9, 0, 0, 0))
Ete2026 ==
    Holiday("Vacances d'Ete", MkDateTime(2026, 7, 4, 0, 0, 0), MkDateTime(2026, 9, 1, 0, 0, 0))
\* a record whose end precedes its start
Inverted2026 ==
    Holiday("Pont de l'Ascension", MkDateTime(2026, 5, 16, 0, 0, 0), MkDateTime(2026, 5, 15, 0, 0, 0))

Scenario(cfg, prov, clk) ==
    [config |-> cfg, provider |-> prov, clock |-> clk, response |-> AllRecords,
     exceptions |-> << >>]

Scenarios ==
    { \* alternate weekends, odd-year holidays split, first half with this parent
      Scenario(BaseConfig, {Toussaint2025, Noel2025, Hiver2026}, MkDateTime(2025, 10, 10, 17, 0, 0)),
      \* the same household seen from the parent of the even years
      Scenario([BaseConfig EXCEPT !.reference_year_vacations = "even"],
               {Toussaint2025, Noel2025, Hiver2026}, MkDateTime(2025, 10, 17, 16, 14, 30)),
      \* alternate weeks on odd ISO weeks, second half of an even-year holiday
      Scenario([BaseConfig EXCEPT !.custody_type = "alternate_week_parity",
                                  !.reference_year_custody = "odd",
                                  !.reference_year_vacations = "even",
                                  !.arrival_time = <<8, 0>>],
               {Hiver2026, Ete2026}, MkDateTime(2026, 2, 13, 9, 0, 0)),
      \* 2-2-3 from Sunday with equal arrival and departure times
      Scenario([BaseConfig EXCEPT !.custody_type = "two_two_three",
                                  !.start_day = "sunday",
                                  !.reference_year_vacations = "even",
                                  !.arrival_time = <<19, 0>>],
               {Hiver2026}, MkDateTime(2026, 2, 27, 10, 0, 0)),
      \* July with this parent in even years
      Scenario([BaseConfig EXCEPT !.july_rule = "july_even"],
               {Ete2026}, MkDateTime(2026, 6, 26, 17, 0, 0)),
      \* second half of August, odd_second split, alternate weeks
      Scenario([BaseConfig EXCEPT !.custody_type = "alternate_week",
                                  !.summer_rule = "august_second_half",
                                  !.reference_year_vacations = "even",
                                  !.vacation_split_mode = "odd_second"],
               {Hiver2026, Ete2026}, MkDateTime(2026, 8, 14, 12, 0, 0)),
      \* a malformed holiday record among the data
      Scenario([BaseConfig EXCEPT !.reference_year_vacations = "even"],
               {Inverted2026, Hiver2026}, MkDateTime(2026, 5, 1, 9, 0, 0)),
      \* no zone configured, 2-2-5-5 with a custom range and a weekly exception
      Scenario([BaseConfig EXCEPT !.custody_type = "two_two_five_five",
                                  !.zone = None,
                                  !.arrival_time = <<-1>>,
                                  !.custom_rules =
                                      << [start |-> Some(MkDateTime(2026, 1, 7, 10, 0, 0)),
                                          end |-> Some(MkDateTime(2026, 1, 7, 12, 0, 0))] >>,
                                  !.exceptions_recurring =
                                      << [weekday |-> Some(2), start_time |-> <<16, 0>>,
                                          end_time |-> <<18, 0>>, start_date |-> Nothing,
                                          end_date |-> Some(MkDate(2026, 2, 1))] >>],
               {}, MkDateTime(2026, 1, 7, 11, 59, 0)),
      \* zone C, whose winter holidays of 2026 the client corrects by hand
      Scenario([BaseConfig EXCEPT !.zone = "C"],
               {Noel2025, Hiver2026}, MkDateTime(2026, 2, 20, 17, 0, 0)) }

NoProbe == Holiday("", 0, 0)

ManagerInit(scenarios) ==
    /\ \E sc \in scenarios :
          /\ config = sc.config
          /\ provider = sc.provider
          /\ clock = sc.clock
          /\ response = sc.response
          \* _apply_manual_exceptions: the exceptions of the entry are stored at set-up
          /\ manual_windows = RangesToWindows(sc.exceptions, "manual")
    /\ cache = EmptyCache
    /\ last_state = Nothing
    /\ events = << >>
    /\ update = "none"
    /\ presence_override = Nothing
    /\ pc = "idle"
    /\ calc_now = clock
    /\ result = Nothing
    /\ trace = NoTrace
    /\ override_call = Nothing
    /\ ticks = 0
    /\ calls = 0
    /\ holiday_in = NoProbe
    /\ bounds_out = Nothing

Init == ManagerInit(Scenarios)

Spec == Init /\ [][Next]_vars

\* ------------------------------------------------------------------------
\* The bounds calculator on its own: holiday records of any shape
\* ------------------------------------------------------------------------
\* the configured arrival and departure times tried ("HH:MM" fields)
ProbeArrivals == {<<0, 0>>, <<16, 15>>, <<19, 0>>}
ProbeDepartures == {<<0, 0>>, <<8, 0>>, <<19, 0>>}

\* raw bounds: any day of a run of days from a Monday, at midnight, at 10:00,
\* or at the configured time
ProbeDays == 14
ProbeFirstDay == MkDate(2026, 5, 11)
ProbeBounds(tod) ==
    {Combine(d, t) : d \in ProbeFirstDay..(ProbeFirstDay + ProbeDays - 1),
                     t \in {0, 10 * HOUR, tod}}

BoundsInit ==
    /\ \E arrival \in ProbeArrivals, departure \in ProbeDepartures :
           config = [BaseConfig EXCEPT !.arrival_time = arrival, !.departure_time = departure]
    /\ \E start \in ProbeBounds(ArrivalTime(config)), end \in ProbeBounds(DepartureTime(config)) :
           holiday_in = Holiday("Vacances", start, end)
    /\ bounds_out = Nothing
    /\ provider = {}
    /\ response = AllRecords
    /\ cache = EmptyCache
    /\ last_state = Nothing
    /\ events = << >>
    /\ update = "none"
    /\ clock = ProbeFirstDay * DAY
    /\ manual_windows = << >>
    /\ presence_override = Nothing
    /\ pc = "idle"
    /\ calc_now = clock
    /\ result = Nothing
    /\ trace = NoTrace
    /\ override_call = Nothing
    /\ ticks = 0
    /\ calls = 0

\* start, end, midpoint = self._effective_holiday_bounds(holiday)
ApplyBounds ==
    /\ bounds_out = Nothing
    /\ bounds_out' = Some(Bounds(holiday_in, config))
    /\ UNCHANGED <<holiday_in, manager_vars>>

\* the bounds returned become the record of the next application
ReapplyBounds ==
    /\ bounds_out # Nothing
    /\ holiday_in' = Holiday(holiday_in.name, bounds_out[1].start, bounds_out[1].end)
    /\ bounds_out' = Nothing
    /\ UNCHANGED manager_vars

BoundsNext == ApplyBounds \/ ReapplyBounds

SpecBounds == BoundsInit /\ [][BoundsNext]_vars

\* the record is aligned: it starts on a Friday at the arrival time and ends
\* on a Sunday at the departure time
Aligned(holiday, cfg) ==
    /\ Weekday(DateOf(holiday.start)) = 4 /\ SecOf(holiday.start) = ArrivalTime(cfg)
    /\ Weekday(DateOf(holiday.end)) = 6 /\ SecOf(holiday.end) = DepartureTime(cfg)

\* the safety fallback was taken for the record
FallbackUsed(holiday, cfg) ==
    LET snapped == SnappedBounds(holiday, ArrivalTime(cfg), DepartureTime(cfg))
    IN  snapped.end <= snapped.start

\* C5: for every holiday record and every arrival and departure time the
\* calculator returns effectiveEnd > effectiveStart, the fallback included
C5_BoundsNeverInverted ==
    bounds_out # Nothing => bounds_out[1].end > bounds_out[1].start

\* C6 as stated: an aligned record is returned unchanged, for every arrival
\* and every departure time
C6_AlignedIsFixedPoint ==
    (bounds_out # Nothing /\ Aligned(holiday_in, config))
        => /\ bounds_out[1].start = holiday_in.start
           /\ bounds_out[1].end = holiday_in.end

\* C6: an aligned record is returned unchanged (effectiveStart = raw start,
\* effectiveEnd = raw end) for every arrival time and every departure time
\* other than 00:00; at 00:00 the exclusive-end correction applies to the
\* record's own end
C6_AlignedIsFixedPointUnlessMidnight ==
    (bounds_out # Nothing /\ Aligned(holiday_in, config) /\ DepartureTime(config) # 0)
        => /\ bounds_out[1].start = holiday_in.start
           /\ bounds_out[1].end = holiday_in.end

\* C6 happens: an aligned record spanning more than one week-end, with a
\* departure time other than midnight, has been through the calculator
C6_Witness ==
    /\ bounds_out # Nothing
    /\ Aligned(holiday_in, config)
    /\ DepartureTime(config) # 0
    /\ holiday_in.end > holiday_in.start + 7 * DAY

\* C7: midpoint - effectiveStart = effectiveEnd - midpoint, exactly, for
\* every holiday, also when the fallback bounds are used
C7_MidpointHalvesExactly ==
    bounds_out # Nothing =>
        bounds_out[1].mid - bounds_out[1].start = bounds_out[1].end - bounds_out[1].mid

\* C7 happens: bounds from the fallback whose midpoint is not at midnight
C7_Witness ==
    /\ bounds_out # Nothing
    /\ FallbackUsed(holiday_in, config)
    /\ bounds_out[1].end > bounds_out[1].start
    /\ SecOf(bounds_out[1].mid) # 0

\* ------------------------------------------------------------------------
\* Properties of the window list (WindowResolver)
\* ------------------------------------------------------------------------
\* the windows of a list, as a set
Range(seq) == {seq[i] : i \in 1..Len(seq)}

\* C1: in the window list a computation returns, no window of source
\* "pattern" strictly overlaps (pattern.start < vac.end and pattern.end >
\* vac.start) a vacation custody window (source "vacation" or "summer")
\* generated in the same computation; a generated pattern window that
\* overlaps none of them, touching ones included, is kept (it is in the list
\* as long as it ends more than a minute after now).
C1_PatternClearOfVacationCustody ==
    result # Nothing =>
        LET custody == {v \in Range(trace.vacation_windows) : v.source \in {"vacation", "summer"}}
            free(w) == \A v \in custody : ~(w.start < v.end /\ w.end > v.start)
        IN  /\ \A w \in Range(result[1].windows) : w.source = "pattern" => free(w)
            /\ \A w \in Range(trace.pattern_windows) :
                   (free(w) /\ w.end > calc_now + GraceSeconds) => w \in Range(result[1].windows)

\* C1 happens: a returned pattern window touches a vacation custody window at
\* an edge, and a generated pattern window overlapping one has been dropped
C1_Witness ==
    /\ result # Nothing
    /\ \E w \in Range(result[1].windows), v \in Range(trace.vacation_windows) :
           /\ w.source = "pattern"
           /\ v.source \in {"vacation", "summer"}
           /\ (w.start = v.end \/ w.end = v.start)
    /\ \E w \in Range(trace.pattern_windows), v \in Range(trace.vacation_windows) :
           /\ v.source \in {"vacation", "summer"}
           /\ w.start < v.end /\ w.end > v.start
           /\ w.end > calc_now + GraceSeconds
           /\ w \notin Range(result[1].windows)

\* C2: no pattern window of the returned list overlaps the effective span
\* [effectiveStart, effectiveEnd) of a school holiday that has not ended yet
\* (the span of its vacation_filter window), whichever parent has the holiday
C2_PatternClearOfWholeHoliday ==
    result # Nothing =>
        \A w \in Range(result[1].windows), v \in Range(trace.vacation_windows) :
            (w.source = "pattern" /\ v.source = "vacation_filter")
                => ~(w.start < v.end /\ w.end > v.start)

\* C3: no window of source "vacation_filter" is in the window list of a
\* returned computation
C3_NoFilterWindowReturned ==
    result # Nothing => \A w \in Range(result[1].windows) : w.source # "vacation_filter"

\* C3 happens: the computation generated a filter window that ends late
\* enough to pass the time filters
C3_Witness ==
    /\ result # Nothing
    /\ \E v \in Range(trace.vacation_windows) :
           v.source = "vacation_filter" /\ v.end > calc_now + GraceSeconds

\* C4: every window the engine constructs, of any source, ends strictly
\* after it starts
C4_EveryWindowEndsAfterStart ==
    \A w \in Range(trace.vacation_windows) \cup Range(trace.pattern_windows)
              \cup Range(trace.all_windows) \cup Range(manual_windows) :
        w.end > w.start

\* ------------------------------------------------------------------------
\* Properties of the presence evaluation (PresenceEvaluator)
\* ------------------------------------------------------------------------
\* a window that has started and ends at most one minute after now
GraceWindows ==
    {w \in Range(trace.all_windows) :
        w.start <= calc_now /\ calc_now < w.end /\ w.end <= calc_now + MINUTE}

\* the windows that end more than one minute after now
LiveWindows == {w \in Range(trace.all_windows) : w.end > calc_now + MINUTE}

\* the start of the first of the windows S that starts strictly after now
FirstStartAfterNow(S) ==
    LET starts == {w.start : w \in {x \in S : x.start > calc_now}}
    IN  IF starts = {} THEN Nothing
        ELSE Some(CHOOSE t \in starts : \A u \in starts : t <= u)

\* a computation has returned, no override was active in it, and a window
\* was within the grace minute
GraceCase == result # Nothing /\ trace.override_state = Nothing /\ GraceWindows # {}

\* C8 as stated: in the grace case is_present is false and next_arrival is
\* the start of the first window starting strictly after now
C8_GraceWindowMeansAbsent ==
    GraceCase =>
        /\ result[1].is_present = FALSE
        /\ result[1].next_arrival = FirstStartAfterNow(Range(trace.all_windows))

\* C8: with no override active, a window with start <= now whose end is at
\* most one minute after now is not treated as current: is_present is true
\* only if another window with start <= now ends more than one minute after
\* now; otherwise is_present is false and next_arrival is the start of the
\* first window that starts strictly after now and ends more than one minute
\* after now (none if there is no such window)
C8_GraceWindowIsNotCurrent ==
    GraceCase =>
        /\ result[1].is_present = (\E w \in LiveWindows : w.start <= calc_now)
        /\ ~result[1].is_present => result[1].next_arrival = FirstStartAfterNow(LiveWindows)

\* C8 happens: a window is within the grace minute, the child is reported
\* absent and the next arrival is a later window
C8_Witness ==
    /\ GraceCase
    /\ ~result[1].is_present
    /\ result[1].next_arrival # Nothing

\* the window membership of now in the returned list
InReturnedWindow ==
    \E w \in Range(result[1].windows) : w.start <= calc_now /\ calc_now < w.end

\* C9: after override_presence(state, D) at t0, a computation with
\* now <= t0 + D (any now when no duration was given) returns is_present equal
\* to the override state, whatever the windows; a computation with
\* now > t0 + D returns the window membership of now, although clear_override
\* was not called, as long as no new override is set
C9_OverrideUntilExpiry ==
    (result # Nothing /\ trace.override_call # Nothing) =>
        LET call == trace.override_call[1]
        IN  IF call.duration = Nothing \/ calc_now <= call.t0 + call.duration[1]
            THEN result[1].is_present = (call.state = "on")
            ELSE result[1].is_present = InReturnedWindow

\* C9 happens: an override in force contradicts the windows
C9_Witness ==
    /\ result # Nothing
    /\ trace.override_call # Nothing
    /\ trace.override_call[1].duration # Nothing
    /\ calc_now = trace.override_call[1].t0 + trace.override_call[1].duration[1]
    /\ result[1].is_present # InReturnedWindow

\* an override that has expired no longer decides: the computation ran after
\* t0 + D and returned the opposite of the override state
C9_ExpiredWitness ==
    /\ result # Nothing
    /\ trace.override_call # Nothing
    /\ trace.override_call[1].duration # Nothing
    /\ calc_now > trace.override_call[1].t0 + trace.override_call[1].duration[1]
    /\ result[1].is_present # (trace.override_call[1].state = "on")
    /\ presence_override = Nothing

\* ------------------------------------------------------------------------
\* Scenario A: alternating weeks on even ISO weeks, seen on Monday mornings
\* ------------------------------------------------------------------------
ScenarioAConfig ==
    [BaseConfig EXCEPT !.custody_type = "alternate_week_parity",
                       !.reference_year_custody = "even",
                       !.arrival_time = <<8, 0>>,
                       !.departure_time = <<19, 0>>,
                       !.zone = None]

\* the Mondays of even ISO weeks over a run of years, at 09:00
ScenarioAYears == 3
ScenarioAMondays ==
    {Combine(d, 9 * HOUR) : d \in {x \in MkDate(2025, 1, 1)..(MkDate(2025 + ScenarioAYears, 1, 1) - 1) :
                                       Weekday(x) = 0 /\ IsoWeek(x) % 2 = 0}}

InitA ==
    ManagerInit({Scenario(ScenarioAConfig, {}, monday) : monday \in ScenarioAMondays})

\* neither service calls nor clock steps: the computation runs at 09:00
NextA == CalculateStart \/ CalculateFinish

SpecA == InitA /\ [][NextA]_vars

\* the day is a French public holiday
IsPublicHoliday(d) == d \in get_french_holidays(YearOfDate(d))

\* C10 as stated: on every Monday 09:00 of an even ISO week the computation
\* returns is_present = true and next_departure = the Sunday of that week at
\* 19:00
C10_MondayMorningUntilSunday ==
    result # Nothing =>
        /\ result[1].is_present
        /\ result[1].next_departure = Some(Combine(DateOf(calc_now) + 6, 19 * HOUR))

\* C10: in Scenario A, on every Monday 09:00 of an even ISO week the
\* computation returns is_present = true, and next_departure = the Sunday of
\* that week at 19:00, unless the Friday of that week is a public holiday:
\* then the week is bridged and next_departure is the following Monday at
\* 19:00
C10_MondayMorningUntilSundayOrBridge ==
    result # Nothing =>
        LET monday == DateOf(calc_now)
            last_day == IF IsPublicHoliday(monday + 4) THEN monday + 7 ELSE monday + 6
        IN  /\ result[1].is_present
            /\ result[1].next_departure = Some(Combine(last_day, 19 * HOUR))

\* C10 happens: a Monday morning of an even week whose Friday is a public
\* holiday has been computed
C10_Witness ==
    /\ result # Nothing
    /\ Weekday(DateOf(calc_now)) = 0 /\ IsoWeek(DateOf(calc_now)) % 2 = 0
    /\ SecOf(calc_now) = 9 * HOUR
    /\ IsPublicHoliday(DateOf(calc_now) + 4)
    /\ result[1].is_present

\* ------------------------------------------------------------------------
\* The automatic split rule: every split mode and reference parity, on
\* holidays of odd and even years, before and during the holiday
\* ------------------------------------------------------------------------
SplitModes == {"odd_first", "odd_second"}
ReferenceYears == {"even", "odd"}
SplitHolidays == {Toussaint2025, Noel2025, Hiver2026, Ete2026}

\* the computation runs a week before the holiday, ten days into it, or a
\* month after its end
SplitClocks(holiday) ==
    {holiday.start - 7 * DAY + 17 * HOUR, holiday.start + 10 * DAY + 9 * HOUR,
     holiday.end + 30 * DAY + 9 * HOUR}

SplitScenarios ==
    {Scenario([BaseConfig EXCEPT !.vacation_split_mode = split,
                                 !.reference_year_vacations = reference],
              {holiday}, clk) :
        split \in SplitModes, reference \in ReferenceYears,
        holiday \in SplitHolidays, clk \in UNION {SplitClocks(h) : h \in SplitHolidays}}

InitSplit == ManagerInit(SplitScenarios)

SpecSplit == InitSplit /\ [][NextA]_vars

\* the half of the holiday the parity of its year and the split mode assign
\* to the configured parent: the first half for odd_first with an odd year
\* and odd_second with an even year, the second half otherwise; nothing when
\* the year's parity is not the reference parity
AssignedHalf(holiday, cfg) ==
    LET b == Bounds(holiday, cfg)
        odd_year == YearOf(b.start) % 2 = 1
        first == (cfg.vacation_split_mode = "odd_first") = odd_year
    IN  IF (ReferenceYearVacations(cfg) = "odd") = odd_year
        THEN << IF first THEN Window(b.start, b.mid, "vacation")
                ELSE Window(b.mid, b.end, "vacation") >>
        ELSE << >>

RECURSIVE AssignedHalves(_, _, _)
\* the assigned halves of the holidays no summer rule handles and that have
\* not ended before now, in the provider's order
AssignedHalves(holidays, now, cfg) ==
    IF holidays = << >> THEN << >>
    ELSE (IF AppliedSummerRule(Head(holidays), cfg) = None /\ ~(Bounds(Head(holidays), cfg).end < now)
          THEN AssignedHalf(Head(holidays), cfg) ELSE << >>)
         \o AssignedHalves(Tail(holidays), now, cfg)

\* C11: for every holiday no summer rule handles and whose effective end is
\* not before now, the generator emits a window iff the parity of
\* effectiveStart.year is the reference parity, and then exactly one, of
\* source "vacation": [effectiveStart, midpoint) when the split mode gives
\* that year the first half, [midpoint, effectiveEnd) when it gives it the
\* second
C11_AutomaticSplitByParity ==
    (result # Nothing /\ config.zone # None) =>
        SelectSeq(trace.vacation_windows, LAMBDA w : w.source = "vacation")
            = AssignedHalves(trace.holidays, calc_now, config)

\* with split mode odd_first the generator emits exactly the assigned half
C11_OddFirstSplit ==
    (result # Nothing /\ config.zone # None /\ config.vacation_split_mode = "odd_first") =>
        SelectSeq(trace.vacation_windows, LAMBDA w : w.source = "vacation")
            = AssignedHalves(trace.holidays, calc_now, config)

\* with split mode odd_second the generator emits no window at all
C11_OddSecondEmitsNothing ==
    (result # Nothing /\ config.vacation_split_mode = "odd_second") =>
        \A w \in Range(trace.vacation_windows) : w.source # "vacation"

\* ------------------------------------------------------------------------
\* Recurring exceptions: one weekly rule, with and without date bounds
\* ------------------------------------------------------------------------
\* a rule of exceptions_recurring; dates are given relative to the day of the
\* first computation
RecurringRule(weekday, start_time, end_time, start_date, end_date) ==
    [weekday |-> weekday, start_time |-> start_time, end_time |-> end_time,
     start_date |-> start_date, end_date |-> end_date]

RuleWeekdays == {Some(0), Some(2), Some(6), Some(7), Nothing}
RuleTimes == { <<<<16, 0>>, <<18, 0>>>>, <<<<0, 0>>, <<23, 59>>>>, <<<<18, 0>>, <<16, 0>>>> }
RuleStartOffsets == {Nothing, Some(0 - 10), Some(3), Some(400)}
RuleEndOffsets == {Nothing, Some(0 - 5), Some(30), Some(400)}
RuleClocks ==
    {MkDateTime(2026, 1, 7, 11, 59, 0), MkDateTime(2026, 1, 8, 16, 30, 0),
     MkDateTime(2027, 12, 27, 0, 0, 0)}

OffsetDate(clk, offset) == IF offset = Nothing THEN Nothing ELSE Some(DateOf(clk) + offset[1])

RecurringScenarios ==
    {Scenario([BaseConfig EXCEPT !.zone = None,
                                 !.exceptions_recurring =
                                     << RecurringRule(weekday, times[1], times[2],
                                                      OffsetDate(clk, from), OffsetDate(clk, to)) >>],
              {}, clk) :
        weekday \in RuleWeekdays, times \in RuleTimes, from \in RuleStartOffsets,
        to \in RuleEndOffsets, clk \in RuleClocks}

InitRecurring == ManagerInit(RecurringScenarios)

SpecRecurring == InitRecurring /\ [][NextA]_vars

\* the rule has a valid weekday and end_time > start_time
ValidRule(item) ==
    /\ item.weekday # Nothing
    /\ item.weekday[1] \in 0..6
    /\ _parse_time(item.end_time) > _parse_time(item.start_time)

\* the dates of the rule's weekday in the inclusive range
\* [max(now - 1 day, start_date), min(now + 365 days, end_date)]
RuleDates(item, now) ==
    LET first == IF item.start_date # Nothing
                 THEN Max(DateOf(now) - 1, item.start_date[1]) ELSE DateOf(now) - 1
        last == IF item.end_date # Nothing
                THEN Min(DateOf(now) + 365, item.end_date[1]) ELSE DateOf(now) + 365
    IN  {d \in first..last : Weekday(d) = item.weekday[1]}

\* the windows of source exception_recurring a computation generated
RecurringGenerated ==
    SelectSeq(trace.all_windows, LAMBDA w : w.source = "exception_recurring")

\* C12: a rule with a valid weekday and end_time > start_time yields exactly
\* one window for every date of its weekday in the inclusive range
\* [max(now - 1 day, start_date), min(now + 365 days, end_date)], stamped with
\* the rule's start and end time, and no other window; without date bounds
\* these are floor(365/7) plus or minus 1 windows, consecutive ones exactly
\* 7 days apart, none overlapping
C12_OneWindowPerOccurrence ==
    (result # Nothing /\ Len(config.exceptions_recurring) = 1
                      /\ ValidRule(config.exceptions_recurring[1])) =>
        LET item == config.exceptions_recurring[1]
            dates == RuleDates(item, calc_now)
            generated == RecurringGenerated
        IN  /\ Range(generated) =
                   {Window(Combine(d, _parse_time(item.start_time)),
                           Combine(d, _parse_time(item.end_time)), "exception_recurring") : d \in dates}
            /\ Len(generated) = Cardinality(dates)
            /\ (item.start_date = Nothing /\ item.end_date = Nothing) =>
                   /\ Len(generated) \in ((365 \div 7) - 1)..((365 \div 7) + 1)
                   /\ \A i \in 1..(Len(generated) - 1) :
                          /\ generated[i + 1].start = generated[i].start + 7 * DAY
                          /\ generated[i].end <= generated[i + 1].start

\* C12 happens: a rule without date bounds whose weekday is the day before
\* now has produced its windows, the first on the day before now
C12_Witness ==
    /\ result # Nothing
    /\ Len(config.exceptions_recurring) = 1
    /\ ValidRule(config.exceptions_recurring[1])
    /\ config.exceptions_recurring[1].start_date = Nothing
    /\ config.exceptions_recurring[1].end_date = Nothing
    /\ Len(RecurringGenerated) = 53
    /\ DateOf(RecurringGenerated[1].start) = DateOf(calc_now) - 1

\* a rule bounded on both sides has produced windows
C12_BoundedWitness ==
    /\ result # Nothing
    /\ Len(config.exceptions_recurring) = 1
    /\ ValidRule(config.exceptions_recurring[1])
    /\ config.exceptions_recurring[1].start_date # Nothing
    /\ config.exceptions_recurring[1].end_date # Nothing
    /\ Len(RecurringGenerated) \in 1..10

\* ------------------------------------------------------------------------
\* Scenario D: no holiday in the list of the year
\* ------------------------------------------------------------------------
ScenarioDTypes == {"alternate_weekend", "custom"}

\* the custom ranges and weekly exceptions a configuration may carry
ScenarioDExtras ==
    { [custom_rules |-> << >>, exceptions_recurring |-> << >>],
      [custom_rules |-> << [start |-> Some(MkDateTime(2027, 3, 3, 10, 0, 0)),
                            end |-> Some(MkDateTime(2027, 3, 3, 12, 0, 0))] >>,
       exceptions_recurring |-> << >>],
      [custom_rules |-> << >>,
       exceptions_recurring |-> << RecurringRule(Some(2), <<16, 0>>, <<18, 0>>, Nothing,
                                                 Some(MkDate(2027, 3, 31))) >>] }

\* an empty catalogue, or one whose records do not touch the year of now
ScenarioDProviders == {{}, {Toussaint2025}}
\* without a zone the provider is not asked: one catalogue is enough
ScenarioDZones == {<<None, {}>>} \cup {<<"A", prov>> : prov \in ScenarioDProviders}
ScenarioDClocks == {MkDateTime(2027, 3, 3, 11, 0, 0)}

ScenarioDScenarios ==
    {Scenario([BaseConfig EXCEPT !.custody_type = type, !.zone = zoned[1],
                                 !.custom_rules = extra.custom_rules,
                                 !.exceptions_recurring = extra.exceptions_recurring],
              zoned[2], clk) :
        type \in ScenarioDTypes, extra \in ScenarioDExtras, clk \in ScenarioDClocks,
        zoned \in ScenarioDZones}

InitD == ManagerInit(ScenarioDScenarios)

\* computations, clock steps of a day and manual dates
NextD ==
    \/ CalculateStart
    \/ CalculateFinish
    \/ Tick(DAY)
    \/ \E ranges \in ManualRangeLists(clock) : set_manual_windows(ranges)

SpecD == InitD /\ [][NextD]_vars

\* a computation returned, its holiday list was empty and it used no manual
\* window
ScenarioDCase ==
    /\ result # Nothing
    /\ trace.holidays = << >>
    /\ trace.manual_windows = << >>

\* C13 as stated: with an empty holiday list and no manual windows every
\* window of the list has source "pattern" and current_period is "school"
C13_OnlyPatternWindows ==
    ScenarioDCase =>
        /\ \A w \in Range(result[1].windows) : w.source = "pattern"
        /\ result[1].current_period = "school"

\* C13: with an empty holiday list and no manual windows every window of the
\* list has source "pattern", "custom" or "exception_recurring", only
\* "pattern" when the configuration has neither custom rules nor recurring
\* exceptions, and current_period is "school" for every now
C13_NoVacationWindows ==
    ScenarioDCase =>
        /\ \A w \in Range(result[1].windows) :
               w.source \in {"pattern", "custom", "exception_recurring"}
        /\ (config.custom_rules = << >> /\ config.exceptions_recurring = << >>)
               => \A w \in Range(result[1].windows) : w.source = "pattern"
        /\ result[1].current_period = "school"

\* C13 happens: a zone is configured, the provider has no record for the
\* year, a custom range is configured and the list returned holds pattern
\* windows and the custom window
C13_Witness ==
    /\ ScenarioDCase
    /\ config.zone # None
    /\ \E w \in Range(result[1].windows) : w.source = "pattern"
    /\ \E w \in Range(result[1].windows) : w.source = "custom"
    /\ result[1].current_period = "school"

\* ------------------------------------------------------------------------
\* Configurations that generate no window, or only windows already ended
\* ------------------------------------------------------------------------
EmptyClock == MkDateTime(2026, 3, 18, 12, 0, 0)

EmptyScenarios ==
    { \* custom custody type without custom ranges, no zone
      Scenario([BaseConfig EXCEPT !.custody_type = "custom", !.zone = None], {}, EmptyClock),
      \* the same with a zone whose holidays have all ended
      Scenario([BaseConfig EXCEPT !.custody_type = "custom"], {Hiver2026}, EmptyClock),
      \* a custom range that ended two hours before now
      Scenario([BaseConfig EXCEPT !.custody_type = "custom", !.zone = None,
                                  !.custom_rules =
                                      << [start |-> Some(EmptyClock - 5 * HOUR),
                                          end |-> Some(EmptyClock - 2 * HOUR)] >>],
               {}, EmptyClock),
      \* zone C in the year of the winter holidays the client corrects by hand
      Scenario([BaseConfig EXCEPT !.custody_type = "custom", !.zone = "C"],
               {Hiver2026}, EmptyClock) }

InitEmpty == ManagerInit(EmptyScenarios)

\* updates, service calls and clock steps of a day
NextEmpty ==
    \/ Tick(DAY)
    \/ \E ranges \in ManualRangeLists(clock) : set_manual_windows(ranges)
    \/ \E state \in OverrideStates, duration \in OverrideDurations : override_presence(state, duration)
    \/ clear_override
    \/ CalculateStart
    \/ CalculateFinish
    \/ CalculateFail

SpecEmpty == InitEmpty /\ [][NextEmpty]_vars

\* a computation returned an empty window list
EmptyCase == result # Nothing /\ result[1].windows = << >>

\* C14 as stated: an empty window list gives is_present = false and
\* next_arrival, next_departure and days_remaining null
C14_EmptyListMeansAbsent ==
    EmptyCase =>
        /\ result[1].is_present = FALSE
        /\ result[1].next_arrival = Nothing
        /\ result[1].next_departure = Nothing
        /\ result[1].days_remaining = Nothing

\* C14: when the resolved window list is empty the computation completes
\* and, unless an override of state "on" is active, returns is_present =
\* false and next_arrival, next_departure and days_remaining null; under an
\* active "on" override is_present is true, next_arrival is null, and
\* next_departure is the override's expiry when that lies more than one
\* minute after now (days_remaining the time to it), null otherwise
C14_EmptyListFollowsOverride ==
    /\ EmptyCase => update = "ok"
    /\ EmptyCase =>
        IF trace.override_state = Some(TRUE)
        THEN LET call == trace.override_call[1]
                 until == IF call.duration = Nothing THEN Nothing
                          ELSE Some(call.t0 + call.duration[1])
             IN  /\ result[1].is_present = TRUE
                 /\ result[1].next_arrival = Nothing
                 /\ result[1].next_departure =
                        (IF until # Nothing /\ until[1] > calc_now + MINUTE THEN until ELSE Nothing)
                 /\ (result[1].days_remaining = Nothing) = (result[1].next_departure = Nothing)
        ELSE /\ result[1].is_present = FALSE
             /\ result[1].next_arrival = Nothing
             /\ result[1].next_departure = Nothing
             /\ result[1].days_remaining = Nothing

\* C14 happens: a computation without override returned an empty list,
\* although a window that ended in the last day had been generated
C14_Witness ==
    /\ EmptyCase
    /\ trace.override_state = Nothing
    /\ trace.all_windows # << >>
    /\ result[1].is_present = FALSE
    /\ result[1].days_remaining = Nothing

\* an "on" override with an expiry decided a computation with an empty list
C14_OverrideWitness ==
    /\ EmptyCase
    /\ trace.override_state = Some(TRUE)
    /\ result[1].next_departure # Nothing

\* ------------------------------------------------------------------------
\* The provider under every kind of answer, and the coordinator's update
\* ------------------------------------------------------------------------
ClientZones == {None, "A", "C"}

\* the catalogue of a zone: nothing, the four holidays of 2025-2026, or the
\* winter holidays with the dates the client hard-codes
ClientProviders == {{}, {Toussaint2025, Noel2025, Hiver2026, Ete2026}, {Noel2025, Winter2026}}

\* every request answered with records, or one school year answered otherwise
ClientResponses ==
    {AllRecords} \cup {[AllRecords EXCEPT ![sy] = kind] :
                          sy \in {2025, 2026}, kind \in ResponseKinds \ {"records"}}

\* the last evening of 2025 and the eve of the winter holidays of 2026
ClientClocks == {MkDateTime(2025, 12, 31, 17, 0, 0), MkDateTime(2026, 2, 20, 17, 0, 0)}

ClientScenarios ==
    { [config |-> [BaseConfig EXCEPT !.zone = zone], provider |-> prov, clock |-> clk,
       response |-> resp, exceptions |-> << >>] :
          zone \in ClientZones, prov \in ClientProviders, clk \in ClientClocks,
          resp \in ClientResponses }

InitClient == ManagerInit(ClientScenarios)

\* updates of the coordinator, a day apart
NextClient == Tick(DAY) \/ CalculateStart \/ CalculateFinish \/ CalculateFail

SpecClient == InitClient /\ [][NextClient]_vars

\* C15: a failed computation yields no partial result: when async_calculate
\* raises the update ends as a failure, no CustodyComputation is returned, no
\* event is fired and _last_state stays what it was; an update that does not
\* fail returns the full CustodyComputation, which becomes _last_state
C15_FailureYieldsNothing ==
    /\ [][(update = "running" /\ update' = "failed")
              => (result' = Nothing /\ events' = << >> /\ last_state' = last_state)]_vars
    /\ [](update = "failed" => (result = Nothing /\ events = << >>))
    /\ [](update = "ok" => (result # Nothing /\ last_state = result))

\* C15 happens: an update failed after an earlier one had succeeded, and the
\* state of the earlier one is still the last known-good state
C15_Witness ==
    /\ update = "failed"
    /\ last_state # Nothing
    /\ result = Nothing

\* ------------------------------------------------------------------------
\* The provider contract
\* ------------------------------------------------------------------------
\* the answers the contract names: records present or missing, a network
\* failure, a body that does not parse
ContractResponses ==
    \A sy \in DOMAIN response : response[sy] \in {"records", "duplicates", "client_error", "bad_json"}

OrderedByStart(holidays) ==
    \A i, j \in 1..Len(holidays) : i < j => holidays[i].start <= holidays[j].start

NoDuplicate(holidays) ==
    \A i, j \in 1..Len(holidays) : i < j => holidays[i] # holidays[j]

\* C17: for every zone and every answer the contract names, async_list does
\* not raise, and the list it returns is ordered by start and holds no two
\* entries with the same (name, start, end)
C17_ProviderContract ==
    (ContractResponses /\ config.zone # None) =>
        /\ update # "failed"
        /\ (update = "ok" => OrderedByStart(trace.holidays) /\ NoDuplicate(trace.holidays))

\* what holds of it: a list that async_list returns is ordered by start and
\* free of duplicates, and a school year whose request failed contributes nothing
C17_ReturnedListOrderedAndUnique ==
    (update = "ok" /\ config.zone # None) =>
        /\ OrderedByStart(trace.holidays)
        /\ NoDuplicate(trace.holidays)
        /\ \A sy \in DOMAIN cache :
               ResponseOf(response, sy) \in {"client_error", "bad_json"} => cache[sy] = << >>

\* outside zone C the answers the contract names never make async_list raise
C17_OtherZonesNeverRaise ==
    (ContractResponses /\ config.zone # "C") => update # "failed"

\* ------------------------------------------------------------------------
\* Service calls while a computation awaits the provider
\* ------------------------------------------------------------------------
\* what the computation evaluates from the manual windows and the override
\* given, the generated windows being those of the trace
EvaluationWith(manual, override) ==
    LET built == MergeWindows(trace.vacation_windows, trace.pattern_windows,
                              _load_custom_rules(config), calc_now)
    IN  Evaluate(SortByStart(built \o manual \o _build_recurring_windows(calc_now, config)),
                 calc_now, override)

\* C16: a computation uses the manual windows and the override as they were
\* when it started: its windows, is_present, next_arrival and next_departure
\* are those evaluated from the manual windows and the override of its start,
\* whatever service call ran while it awaited the provider
C16_SnapshotAtStart ==
    result # Nothing =>
        LET ev == EvaluationWith(trace.start_manual, trace.start_override)
        IN  /\ result[1].windows = ev.windows
            /\ result[1].is_present = ev.is_present
            /\ result[1].next_arrival = ev.next_arrival
            /\ result[1].next_departure = ev.next_departure

\* ------------------------------------------------------------------------
\* Every source of windows at once
\* ------------------------------------------------------------------------
\* the Friday on which the autumn holidays of 2025 begin, at 17:00
MixClock == MkDateTime(2025, 10, 17, 17, 0, 0)

\* alternate weekends in zone A with a custom range over the following
\* Wednesday and an exception every Tuesday from 16:00 to 18:00
MixConfig ==
    [BaseConfig EXCEPT !.custom_rules =
                           << [start |-> Some(MixClock + 5 * DAY), end |-> Some(MixClock + 6 * DAY)] >>,
                       !.exceptions_recurring =
                           << [weekday |-> Some(1), start_time |-> <<16, 0>>,
                               end_time |-> <<18, 0>>, start_date |-> Nothing,
                               end_date |-> Some(MkDate(2025, 11, 30))] >>]

\* the exceptions stored with the entry: none, or two ranges that overlap
\* the weekend, the holidays and each other, the later one first
MixExceptions ==
    { << >>,
      << ManualRange(MixClock, Some(DAY), Some(30 * DAY)),
         ManualRange(MixClock, Some(0 - 2 * HOUR), Some(3 * DAY)) >> }

MixScenarios ==
    { [Scenario(MixConfig, {Toussaint2025, Noel2025}, MixClock) EXCEPT !.exceptions = exceptions] :
          exceptions \in MixExceptions }

InitMix == ManagerInit(MixScenarios)

NextMix ==
    \/ Tick(DAY)
    \/ \E ranges \in ManualRangeLists(clock) : set_manual_windows(ranges)
    \/ CalculateStart
    \/ CalculateFinish

SpecMix == InitMix /\ [][NextMix]_vars

SourcesOf(windows) == {windows[i].source : i \in 1..Len(windows)}

AscendingByStart(windows) ==
    \A i \in 1..(Len(windows) - 1) : windows[i].start <= windows[i + 1].start

\* C18: the window list of every computation is sorted ascending by start,
\* whatever mix of manual, vacation, custom, pattern and recurring-exception
\* windows it holds
C18_WindowsAscendingByStart ==
    result # Nothing => AscendingByStart(result[1].windows)

\* C18 happens: the list returned holds windows of the five sources, which
\* were not in ascending order when they were put together
C18_Witness ==
    /\ result # Nothing
    /\ SourcesOf(result[1].windows)
           = {"manual", "vacation", "custom", "pattern", "exception_recurring"}
    /\ ~AscendingByStart(MergeWindows(trace.vacation_windows, trace.pattern_windows,
                                      _load_custom_rules(config), calc_now)
                             \o trace.manual_windows
                             \o _build_recurring_windows(calc_now, config))
    /\ AscendingByStart(result[1].windows)

\* ------------------------------------------------------------------------
\* Windows that ended during the last day
\* ------------------------------------------------------------------------
RecentlyEnded(w, now) == w.end > now - DAY /\ w.end <= now

\* C19: a window whose end lies in (now - 1 day, now] is still contained in
\* the window list of the computation result
C19_RecentlyEndedRetained ==
    result # Nothing =>
        \A w \in Range(trace.all_windows) :
            RecentlyEnded(w, calc_now) => w \in Range(result[1].windows)

\* what holds of it: _build_windows keeps every vacation, custom and
\* unfiltered pattern window that ended less than a day ago, and drops the
\* others that have ended
C19_ResolverKeepsLastDay ==
    result # Nothing =>
        \A w \in Range(VacationDisplayWindows(trace.vacation_windows))
                    \cup Range(_load_custom_rules(config))
                    \cup Range(_filter_windows_by_vacations(trace.pattern_windows,
                                                            trace.vacation_windows)) :
            (w.end > calc_now - DAY) <=> (w \in Range(trace.all_windows))

\* no window that ended before now is in the list returned
C19_NoEndedWindowReturned ==
    result # Nothing => \A w \in Range(result[1].windows) : w.end > calc_now + MINUTE

\* ------------------------------------------------------------------------
\* Manual windows
\* ------------------------------------------------------------------------
\* the entries of a set_manual_dates call that are stored: those with both
\* bounds and end > start, in their order
StoredEntries(ranges) ==
    LET kept == {i \in 1..Len(ranges) :
                    /\ ranges[i].start # Nothing
                    /\ ranges[i].end # Nothing
                    /\ ranges[i].end[1] > ranges[i].start[1]}
    IN  [k \in 1..Cardinality(kept) |->
            LET i == CHOOSE i \in kept : Cardinality({j \in kept : j <= i}) = k
            IN  Window(ranges[i].start[1], ranges[i].end[1], "manual")]

\* C20: every stored manual window whose end is more than one minute after
\* now is in the computation's window list with source manual and its bounds
\* unchanged, whatever it overlaps; and set_manual_windows replaces the
\* stored windows by the entries of the call that have both bounds and
\* end > start
C20_ManualWindowsUnfiltered ==
    /\ [](result # Nothing =>
             \A w \in Range(trace.manual_windows) :
                 /\ w.source = "manual"
                 /\ (w.end > calc_now + MINUTE => w \in Range(result[1].windows)))
    /\ [][manual_windows' # manual_windows =>
             \E ranges \in ManualRangeLists(clock) : manual_windows' = StoredEntries(ranges)]_vars

\* C20 happens: a call has replaced the two windows stored before by one,
\* and the list returned holds that window, which overlaps a pattern or
\* vacation window of the list, and none of the two
C20_Witness ==
    /\ result # Nothing
    /\ calls = 1
    /\ Len(trace.start_manual) = 2
    /\ Len(trace.manual_windows) = 1
    /\ \E w \in Range(result[1].windows) :
           /\ w = trace.manual_windows[1]
           /\ \E v \in Range(result[1].windows) : v.source # "manual" /\ Overlaps(w, v)
    /\ \A w \in Range(result[1].windows) : w.source = "manual" => w = trace.manual_windows[1]

\* ------------------------------------------------------------------------
\* Recurring exceptions with a malformed time string
\* ------------------------------------------------------------------------
\* "25:00", "abc", "07:30:00", "12:60", ":" beside well-formed times
MalformedTimes ==
    { <<<<25, 0>>, <<18, 0>>>>, <<<<0 - 1>>, <<18, 0>>>>, <<<<7, 30, 0>>, <<18, 0>>>>,
      <<<<6, 0>>, <<12, 60>>>>, <<<<16, 0>>, <<0 - 1, 0 - 1>>>>, <<<<25, 0>>, <<0 - 1>>>> }

\* a rule of every Friday from 10:00 to 11:00, well formed
FridayRule == RecurringRule(Some(4), <<10, 0>>, <<11, 0>>, Nothing, Nothing)

MalformedWeekdays == {Some(0), Some(2), Some(6)}

MalformedScenarios ==
    {Scenario([BaseConfig EXCEPT !.zone = None,
                                 !.exceptions_recurring =
                                     << RecurringRule(weekday, times[1], times[2],
                                                      OffsetDate(clk, from), Nothing),
                                        FridayRule >>],
              {}, clk) :
        weekday \in MalformedWeekdays, times \in MalformedTimes,
        from \in {Nothing, Some(3)}, clk \in RuleClocks}

InitMalformed == ManagerInit(MalformedScenarios)

SpecMalformed == InitMalformed /\ [][NextA]_vars

\* value is a valid HH:MM
WellFormed(value) == Len(value) = 2 /\ value[1] \in 0..23 /\ value[2] \in 0..59

\* the first rule has a malformed start_time or end_time
MalformedCase ==
    /\ result # Nothing
    /\ Len(config.exceptions_recurring) = 2
    /\ config.exceptions_recurring[2] = FridayRule
    /\ \/ ~WellFormed(config.exceptions_recurring[1].start_time)
       \/ ~WellFormed(config.exceptions_recurring[1].end_time)

\* the generated windows that are not those of the Friday rule
FromFirstRule ==
    SelectSeq(RecurringGenerated,
              LAMBDA w : ~(Weekday(DateOf(w.start)) = 4 /\ SecOf(w.start) = 10 * HOUR
                                                         /\ SecOf(w.end) = 11 * HOUR))

\* the Friday rule has produced its windows, one per Friday of the range
FridayRuleProceeds ==
    Len(RecurringGenerated) - Len(FromFirstRule) =
        Cardinality({d \in (DateOf(calc_now) - 1)..(DateOf(calc_now) + 365) : Weekday(d) = 4})

\* C21: a recurring exception whose start_time or end_time is not a valid
\* HH:MM produces no window at all, while the other rule and the rest of the
\* computation proceed normally
C21_MalformedTimeYieldsNoWindow ==
    MalformedCase => (FromFirstRule = << >> /\ FridayRuleProceeds)

\* what the code does with such a rule: the malformed time is read as 08:00,
\* and the rule produces its windows whenever the times so read are in order
C21_MalformedTimeReadAsEight ==
    MalformedCase =>
        LET item == config.exceptions_recurring[1]
            start_time == IF WellFormed(item.start_time)
                          THEN item.start_time[1] * HOUR + item.start_time[2] * MINUTE
                          ELSE 8 * HOUR
            end_time == IF WellFormed(item.end_time)
                        THEN item.end_time[1] * HOUR + item.end_time[2] * MINUTE
                        ELSE 8 * HOUR
        IN  /\ FridayRuleProceeds
            /\ \A w \in Range(FromFirstRule) :
                   /\ Weekday(DateOf(w.start)) = item.weekday[1]
                   /\ SecOf(w.start) = start_time /\ SecOf(w.end) = end_time
                   /\ DateOf(w.start) = DateOf(w.end)
            /\ (end_time > start_time) => Len(FromFirstRule) >= 51
            /\ (end_time <= start_time) => FromFirstRule = << >>

\* a rule with start_time "25:00" and end_time "18:00" has produced windows
\* from 08:00 to 18:00
C21_DefaultTimeWitness ==
    /\ MalformedCase
    /\ config.exceptions_recurring[1].start_time = <<25, 0>>
    /\ Len(FromFirstRule) >= 51
    /\ SecOf(FromFirstRule[1].start) = 8 * HOUR
    /\ SecOf(FromFirstRule[1].end) = 18 * HOUR

\* ------------------------------------------------------------------------
\* PeriodClassifier: an instance that keeps running from one calendar year
\* into the next
\* ------------------------------------------------------------------------
\* the clock moves by a day, or by eight weeks
LongStep == 56 * DAY

YearsProviders == {{}, {Toussaint2025, Noel2025}, {Toussaint2025, Noel2025, Hiver2026, Ete2026}}

\* the effective bounds of the Christmas and winter holidays and the seconds
\* around them, and the last afternoon of 2025
YearsClocks ==
    {MkDateTime(2025, 12, 31, 17, 0, 0)}
        \cup {Bounds(Noel2025, BaseConfig).start + d : d \in {0 - 1, 0}}
        \cup {Bounds(Hiver2026, BaseConfig).end + d : d \in {0, 1}}

YearsScenarios ==
    {Scenario([BaseConfig EXCEPT !.zone = zone], prov, clk) :
        zone \in {None, "A"}, prov \in YearsProviders, clk \in YearsClocks}

InitYears == ManagerInit(YearsScenarios)

NextYears == Tick(DAY) \/ Tick(LongStep) \/ CalculateStart \/ CalculateFinish

SpecYears == InitYears /\ [][NextYears]_vars

\* the holidays of S whose effective bounds contain now, both bounds included
Containing(S, now, cfg) ==
    {h \in S : Bounds(h, cfg).start <= now /\ now <= Bounds(h, cfg).end}

\* the result says vacation, named after a holiday of S, exactly when a
\* holiday of S contains now, and school without a name otherwise
ClassifiedBy(S) ==
    IF Containing(S, calc_now, config) # {}
    THEN /\ result[1].current_period = "vacation"
         /\ result[1].vacation_name \in {h.name : h \in Containing(S, calc_now, config)}
    ELSE /\ result[1].current_period = "school"
         /\ result[1].vacation_name = None

\* C22: current_period is vacation, with vacation_name the holiday's name, if
\* and only if some holiday of the configured zone has
\* effectiveStart <= now <= effectiveEnd; otherwise it is school with a null
\* name; with no zone configured it is always school
C22_VacationIffHolidayContainsNow ==
    result # Nothing =>
        IF config.zone = None
        THEN result[1].current_period = "school" /\ result[1].vacation_name = None
        ELSE ClassifiedBy(provider)

\* what holds: the classification follows the list async_list returned
C22_ClassifiedByReturnedList ==
    result # Nothing =>
        IF config.zone = None
        THEN result[1].current_period = "school" /\ result[1].vacation_name = None
        ELSE ClassifiedBy(Range(trace.holidays))

\* and the zone's holidays as long as the client's cache holds nothing
\* fetched for another calendar year
C22_HoldsWithinOneYear ==
    (result # Nothing /\ config.zone # None
         /\ DOMAIN cache \subseteq {YearOf(calc_now) - 1, YearOf(calc_now)}) =>
        ClassifiedBy(provider)

\* a computation at the last second of the winter holiday's effective bounds
\* has said vacation
C22_InclusiveEndWitness ==
    /\ result # Nothing /\ config.zone = "A"
    /\ calc_now = Bounds(Hiver2026, config).end
    /\ result[1].current_period = "vacation"
    /\ result[1].vacation_name = Hiver2026.name

\* a computation in February 2026, after one in December 2025, says school
\* in the middle of the winter holiday
C22_StaleCacheWitness ==
    /\ result # Nothing /\ config.zone = "A"
    /\ Hiver2026 \in Containing(provider, calc_now, config)
    /\ 2024 \in DOMAIN cache
    /\ result[1].current_period = "school"

\* ------------------------------------------------------------------------
\* NextVacationResolver: the segment returned, before, inside and between
\* the holidays of a school year, for every split mode, reference parity and
\* a summer or July rule
\* ------------------------------------------------------------------------
VacationProviders == {{Toussaint2025, Noel2025, Hiver2026, Ete2026}, {Hiver2026, Ete2026}}

\* (summer_rule, july_rule)
VacationRules == {<<None, None>>, <<"august_second_half", None>>, <<None, "july_even">>}

VacationClocks ==
    {MkDateTime(2025, 10, 10, 17, 0, 0), MkDateTime(2025, 10, 22, 10, 0, 0),
     MkDateTime(2025, 10, 30, 10, 0, 0), MkDateTime(2025, 12, 31, 17, 0, 0),
     MkDateTime(2026, 2, 25, 17, 0, 0), MkDateTime(2026, 3, 5, 10, 0, 0),
     MkDateTime(2026, 6, 20, 10, 0, 0), MkDateTime(2026, 7, 10, 10, 0, 0),
     MkDateTime(2026, 8, 20, 10, 0, 0)}

VacationScenarios ==
    {Scenario([BaseConfig EXCEPT !.vacation_split_mode = split,
                                 !.reference_year_vacations = reference,
                                 !.summer_rule = rules[1],
                                 !.july_rule = rules[2]],
              prov, clk) :
        split \in SplitModes, reference \in ReferenceYears, prov \in VacationProviders,
        rules \in VacationRules, clk \in VacationClocks}

InitVacation == ManagerInit(VacationScenarios)

SpecVacation == InitVacation /\ [][NextA]_vars

\* the custody segments of the holidays the provider listed, the empty ones
\* left out
Segments ==
    {s \in {_custody_segment_for_holiday(trace.holidays[i], config) : i \in 1..Len(trace.holidays)} :
        s.end > s.start}

\* the segment the computation returned
Returned == [start |-> result[1].next_vacation_start, end |-> result[1].next_vacation_end]

AsReturned(s) == [start |-> Some(s.start), end |-> Some(s.end)]

\* C23: the returned (next_vacation_start, next_vacation_end) is the custody
\* segment that contains now if such a segment exists, and otherwise the
\* custody segment with the earliest start strictly after now; a segment
\* that has ended before now, or an empty one, is never returned
C23_ContainingOrNextSegment ==
    (result # Nothing /\ config.zone # None) =>
        LET containing == {s \in Segments : s.start <= calc_now /\ calc_now <= s.end}
            later == {s \in Segments : s.start > calc_now}
        IN  /\ IF containing # {} THEN \E s \in containing : Returned = AsReturned(s)
               ELSE IF later # {}
               THEN \E s \in later : /\ Returned = AsReturned(s)
                                     /\ \A u \in later : s.start <= u.start
               ELSE Returned = [start |-> Nothing, end |-> Nothing]
            /\ Returned.start # Nothing =>
                   /\ Returned.end[1] >= calc_now
                   /\ Returned.end[1] > Returned.start[1]

\* what the code selects: the holiday whose effective bounds contain now,
\* whatever its segment, and otherwise the first holiday, by effective
\* start, whose segment starts after now, empty or not
C23_HolidayContainingNowOrNext ==
    (result # Nothing /\ config.zone # None) =>
        LET holidays == Range(trace.holidays)
            inside == Containing(holidays, calc_now, config)
            later == {h \in holidays : _custody_segment_for_holiday(h, config).start > calc_now}
        IN  IF inside # {}
            THEN \E h \in inside :
                     /\ Returned = AsReturned(_custody_segment_for_holiday(h, config))
                     /\ result[1].next_vacation_name = h.name
            ELSE IF later # {}
            THEN \E h \in later :
                     /\ Returned = AsReturned(_custody_segment_for_holiday(h, config))
                     /\ \A u \in later : Bounds(h, config).start <= Bounds(u, config).start
            ELSE Returned = [start |-> Nothing, end |-> Nothing]

\* a segment that ended before now has been returned
C23_EndedSegmentWitness ==
    /\ result # Nothing
    /\ Returned.start # Nothing
    /\ Returned.end[1] < calc_now
    /\ Returned.end[1] > Returned.start[1]

\* an empty segment has been returned
C23_EmptySegmentWitness ==
    /\ result # Nothing
    /\ Returned.start # Nothing
    /\ Returned.end = Returned.start

\* the holidays of the list that the resolver returned by name and that the
\* generator has not skipped as ended
ReturnedHolidays ==
    {h \in Range(trace.holidays) :
        /\ h.name = result[1].next_vacation_name
        /\ Bounds(h, config).end >= calc_now}

\* the custody windows (not the filter window) generated for a holiday
CustodyWindowsOf(h) ==
    {[start |-> w.start, end |-> w.end] :
        w \in {v \in Range(trace.vacation_windows) :
                  /\ v.source # "vacation_filter"
                  /\ v.start < Bounds(h, config).end + DAY
                  /\ v.end > Bounds(h, config).start - DAY}}

\* the segment returned and the windows generated are the same thing: one
\* window with the segment's start and end, or no window and an empty segment
SameAsGenerated(h) ==
    IF CustodyWindowsOf(h) = {} THEN Returned.start = Returned.end
    ELSE \E w \in CustodyWindowsOf(h) :
             CustodyWindowsOf(h) = {w} /\ Returned = AsReturned(w)

\* C24: for every holiday and configuration the custody segment computed by
\* NextVacationResolver equals the custody window VacationWindowGenerator
\* emits for that holiday (no segment when it emits none), under the
\* automatic split rule for either split mode and when a summer, July or
\* August rule applies
C24_SegmentEqualsGeneratedWindow ==
    (result # Nothing /\ result[1].next_vacation_name # None) =>
        \A h \in ReturnedHolidays : SameAsGenerated(h)

\* what holds: the two agree under split mode odd_first when no summer,
\* July or August rule applies to the holiday
C24_AgreeUnderOddFirst ==
    (result # Nothing /\ result[1].next_vacation_name # None
         /\ config.vacation_split_mode = "odd_first") =>
        \A h \in ReturnedHolidays : AppliedSummerRule(h, config) = None => SameAsGenerated(h)

\* under odd_first a segment equal to the generated window has been returned
C24_AgreeWitness ==
    /\ result # Nothing
    /\ config.vacation_split_mode = "odd_first"
    /\ \E h \in ReturnedHolidays :
           /\ AppliedSummerRule(h, config) = None
           /\ CustodyWindowsOf(h) # {}
           /\ SameAsGenerated(h)

\* under a July rule the resolver has returned the whole effective interval
\* of the summer holiday while the generator emitted the July slice
C24_SummerWitness ==
    /\ result # Nothing
    /\ config.july_rule = "july_even"
    /\ \E h \in ReturnedHolidays :
           /\ CustodyWindowsOf(h) # {}
           /\ Returned = AsReturned(Bounds(h, config))
           /\ ~SameAsGenerated(h)

\* under odd_second the resolver has returned a half while the generator
\* emitted no custody window
C24_OddSecondWitness ==
    /\ result # Nothing
    /\ config.vacation_split_mode = "odd_second"
    /\ \E h \in ReturnedHolidays :
           /\ CustodyWindowsOf(h) = {}
           /\ Returned.end[1] > Returned.start[1]

\* ------------------------------------------------------------------------
\* PatternWindowGenerator: every custody type, parity and start day, in
\* spring 2026 and around the turn of the year 2026/2027 (2026 has 53 ISO
\* weeks), with and without school holidays
\* ------------------------------------------------------------------------
Printemps2026 ==
    Holiday("Vacances de Printemps", MkDateTime(2026, 4, 4, 0, 0, 0), MkDateTime(2026, 4, 20, 0, 0, 0))
Noel2026 ==
    Holiday("Vacances de Noel", MkDateTime(2026, 12, 19, 0, 0, 0), MkDateTime(2027, 1, 4, 0, 0, 0))

PatternTypes ==
    {"alternate_week", "alternate_weekend", "alternate_week_parity", "two_two_three",
     "two_two_five_five"}

PatternStartDays == {"monday", "wednesday"}

\* (arrival_time, departure_time)
PatternTimes == {<<<<16, 15>>, <<19, 0>>>>, <<<<8, 0>>, <<19, 0>>>>}

\* (zone, records of the provider)
PatternZones == {<<None, {}>>, <<"A", {Printemps2026, Noel2026}>>}

PatternClocks ==
    {MkDateTime(2026, 3, 20, 17, 0, 0), MkDateTime(2026, 4, 3, 12, 0, 0),
     MkDateTime(2026, 12, 1, 9, 0, 0), MkDateTime(2027, 1, 2, 10, 0, 0)}

PatternScenarios ==
    {Scenario([BaseConfig EXCEPT !.custody_type = type,
                                 !.reference_year_custody = reference,
                                 !.start_day = start_day,
                                 !.arrival_time = times[1],
                                 !.departure_time = times[2],
                                 !.zone = zoned[1]],
              zoned[2], clk) :
        type \in PatternTypes, reference \in ReferenceYears, start_day \in PatternStartDays,
        times \in PatternTimes, zoned \in PatternZones, clk \in PatternClocks}

InitPattern == ManagerInit(PatternScenarios)

SpecPattern == InitPattern /\ [][NextA]_vars

\* the public holidays the generator knows at now
KnownPublicHolidays(now) ==
    get_french_holidays(YearOf(now)) \cup get_french_holidays(YearOf(now) + 1)

\* the Monday of the week a parity-anchored window was generated for
WeekOf(w) ==
    LET first == DateOf(w.start)
    IN  IF config.custody_type = "alternate_weekend" THEN first - Weekday(first)
        ELSE IF Weekday(first) = 0 THEN first ELSE first + 3

\* the first and last day of the window of the week of Monday m, by default
DefaultFirstDay(m) == IF config.custody_type = "alternate_weekend" THEN m + 4 ELSE m
DefaultLastDay(m) == m + 6

\* the default first day, the default last day or the following Monday, at
\* 00:00, lies inside a vacation window (filter windows included)
InVacation(m) ==
    \E day \in {DefaultFirstDay(m), DefaultLastDay(m), m + 7} :
        \E v \in Range(trace.vacation_windows) : v.start <= day * DAY /\ day * DAY <= v.end

ParityCase == result # Nothing /\ config.custody_type \in ParityTypes

\* the window is the one of its week with the given first and last day
HasEdges(w, first_day, last_day) ==
    /\ w.start = Combine(first_day, ArrivalTime(config))
    /\ w.end = Combine(last_day, DepartureTime(config))

C25_ThreeDaysWitness ==
    /\ ParityCase
    /\ config.custody_type = "alternate_week_parity"
    /\ \E w \in Range(trace.pattern_windows) :
           /\ Weekday(DateOf(w.start)) = 4
           /\ (DateOf(w.start) + 3) \in KnownPublicHolidays(calc_now)
           /\ DateOf(w.end) = DateOf(w.start) + 9

\* C26: every pattern window produced by a computation at now, for every
\* custody type, starts before now + 90 days
C26_PatternStartsBeforeHorizon ==
    result # Nothing =>
        \A w \in Range(trace.pattern_windows) : w.start < calc_now + HorizonDays * DAY

\* what holds: the week or cycle a window belongs to begins before the
\* horizon, so that the window starts less than one cycle (at most 14 days)
\* after it
C26_StartsWithinOneCycleOfHorizon ==
    result # Nothing =>
        \A w \in Range(trace.pattern_windows) : w.start < calc_now + (HorizonDays + 14) * DAY

\* a window that starts after now + 90 days has been produced
C26_BeyondHorizonWitness ==
    /\ result # Nothing
    /\ \E w \in Range(trace.pattern_windows) : w.start >= calc_now + HorizonDays * DAY

\* Pattern windows overlap: w begins before v ends and v before w ends
PatternOverlap(i, j) ==
    /\ trace.pattern_windows[i].start < trace.pattern_windows[j].end
    /\ trace.pattern_windows[j].start < trace.pattern_windows[i].end

\* C29: for every custody type, reference parity, arrival and departure time
\* and now, any two distinct pattern windows produced by one computation are
\* disjoint
C29_PatternWindowsDisjoint ==
    result # Nothing =>
        \A i, j \in 1..Len(trace.pattern_windows) : i # j => ~PatternOverlap(i, j)

\* what holds: the windows of the segment cycles and of the alternate
\* weekends are disjoint, and so are those of the alternate weeks except the
\* window of ISO week 53 and that of week 1
C29_DisjointExceptWeek53 ==
    result # Nothing =>
        \A i, j \in 1..Len(trace.pattern_windows) :
            (i < j /\ PatternOverlap(i, j)) =>
                /\ config.custody_type = "alternate_week_parity"
                /\ j = i + 1
                /\ IsoWeek(WeekOf(trace.pattern_windows[i])) = 53
                /\ IsoWeek(WeekOf(trace.pattern_windows[j])) = 1

\* the window of week 53, bridged over the first of January, ends after the
\* window of week 1 has begun
C29_Week53Witness ==
    /\ result # Nothing
    /\ config.custody_type = "alternate_week_parity"
    /\ \E i \in 1..(Len(trace.pattern_windows) - 1) :
           /\ PatternOverlap(i, i + 1)
           /\ IsoWeek(WeekOf(trace.pattern_windows[i])) = 53

\* C27: for every window list, override state and now, a non-null
\* next_departure is strictly later than now + 1 minute and a non-null
\* next_arrival is strictly later than now
C27_NoDepartureOrArrivalInThePast ==
    result # Nothing =>
        /\ result[1].next_departure # Nothing =>
               result[1].next_departure[1] > calc_now + GraceSeconds
        /\ result[1].next_arrival # Nothing => result[1].next_arrival[1] > calc_now

\* C27 happens: an "on" override that ends within the minute after now is
\* in force, and the departure announced is the end of the next window
C27_Witness ==
    /\ result # Nothing
    /\ trace.override_state = Some(TRUE)
    /\ presence_override # Nothing
    /\ presence_override[1].until # Nothing
    /\ presence_override[1].until[1] <= calc_now + GraceSeconds
    /\ result[1].next_departure # Nothing
    /\ result[1].next_arrival # Nothing

\* and a window that ends within the minute after now has been passed over
\* for the next one
C27_GraceWitness ==
    /\ GraceCase
    /\ result[1].next_departure # Nothing
    /\ result[1].next_arrival # Nothing

\* ------------------------------------------------------------------------
\* PatternGenerator: computations of one instance on successive days, around
\* New Year and in the middle of a year
\* ------------------------------------------------------------------------
SegmentCycleTypes == {"alternate_week", "two_two_three", "two_two_five_five"}

StabilityClocks ==
    {MkDateTime(2025, 12, 30, 17, 0, 0), MkDateTime(2025, 12, 31, 17, 0, 0),
     MkDateTime(2026, 12, 31, 17, 0, 0), MkDateTime(2026, 6, 10, 17, 0, 0)}

\* no zone, no custom rule, no recurring rule and no manual window: the
\* windows are the pattern windows
StabilityScenarios ==
    {Scenario([BaseConfig EXCEPT !.custody_type = type,
                                 !.reference_year_custody = reference,
                                 !.start_day = start_day,
                                 !.zone = None],
              {}, clk) :
        type \in SegmentCycleTypes, reference \in ReferenceYears,
        start_day \in PatternStartDays, clk \in StabilityClocks}

InitStability == ManagerInit(StabilityScenarios)

NextStability == Tick(DAY) \/ CalculateStart \/ CalculateFinish

SpecStability == InitStability /\ [][NextStability]_vars

\* x lies inside a window of the list
Inside(windows, x) == \E i \in 1..Len(windows) : windows[i].start <= x /\ x < windows[i].end

\* the computations run at 17:00 and the windows end at 19:00: the windows a
\* computation returns are its pattern windows that end after its now
ReturnedArePattern ==
    result # Nothing =>
        result[1].windows = SelectSeq(trace.pattern_windows, LAMBDA w : w.end > calc_now)

\* the step on which a computation returns after an earlier one has returned
SecondComputation == pc = "fetching" /\ pc' = "idle" /\ last_state # Nothing /\ result' # Nothing

\* the instants compared: now2 and the same hour of the following days, all
\* earlier than 60 days after the instance's first clock value (the clock
\* moves a day at a time), hence earlier than now1 + 60 days
StabilityInstants == {calc_now + k * DAY : k \in 0..(59 - ticks)}

\* the windows of the computation at now1 and of the computation at now2
\* cover the same instants of x
AgreeOn(x) == Inside(last_state[1].windows, x) <=> Inside(trace'.pattern_windows, x)

\* C28: schedule stability across evaluations: for a segment-cycle custody
\* type with an unchanged configuration, two computations at now1 < now2, in
\* the same or in different calendar years, agree on the pattern: every
\* instant x with now2 <= x < now1 + 60 days lies inside a pattern window
\* generated at now1 if and only if it lies inside one generated at now2
C28_PatternStableAcrossEvaluations ==
    [][SecondComputation => \A x \in StabilityInstants : AgreeOn(x)]_vars

\* the reference year _reference_start takes for a computation at now
ReferenceYearAt(now) == YearOf(_reference_start(now, config.custody_type, config))

\* when the instance's first clock value and now2 have the same reference
\* year, and with them every now1 in between, the two computations agree
C28_StableWithinReferenceYear ==
    [][(SecondComputation /\ ReferenceYearAt(clock - ticks * DAY) = ReferenceYearAt(calc_now))
        => \A x \in StabilityInstants : AgreeOn(x)]_vars

\* alternate weeks anchored on even years: the computation of 2025-12-31
\* announced the departure of Sunday 2026-01-04, the one of 2026-01-01 finds
\* no window before Monday 2026-01-05
C28_NewYearWitness ==
    /\ config.custody_type = "alternate_week" /\ config.reference_year_custody = "even"
    /\ config.start_day = "monday"
    /\ calc_now = MkDateTime(2026, 1, 1, 17, 0, 0)
    /\ result # Nothing /\ ~result[1].is_present
    /\ result[1].next_arrival = Some(MkDateTime(2026, 1, 5, 16, 15, 0))
    /\ ticks = 1

\* ------------------------------------------------------------------------
\* PresenceEvaluator: successive computations of one instance whose
\* configuration, manual windows and override do not change
\* ------------------------------------------------------------------------
\* the end of the alternate-week window of 8 June 2026
JuneDeparture == MkDateTime(2026, 6, 14, 19, 0, 0)

\* the manual windows stored at set-up: none, one that begins at the end of
\* the pattern window, one that begins the morning after
PresenceExceptions ==
    { << >>,
      << ManualRange(JuneDeparture, Some(0), Some(13 * HOUR)) >>,
      << ManualRange(JuneDeparture, Some(13 * HOUR), Some(23 * HOUR)) >> }

PresenceClocks ==
    {MkDateTime(2026, 6, 12, 19, 0, 0), MkDateTime(2026, 6, 13, 19, 0, 0),
     MkDateTime(2025, 12, 31, 19, 0, 0), MkDateTime(2026, 12, 31, 19, 0, 0)}

PresenceScenarios ==
    { [Scenario([BaseConfig EXCEPT !.custody_type = type,
                                   !.reference_year_custody = reference,
                                   !.zone = None],
                {}, clk) EXCEPT !.exceptions = exceptions] :
        type \in {"alternate_week", "alternate_week_parity"}, reference \in ReferenceYears,
        clk \in PresenceClocks, exceptions \in PresenceExceptions }

InitPresence == ManagerInit(PresenceScenarios)

SpecPresence == InitPresence /\ [][NextStability]_vars

\* the earlier computation returned is_present = true and a next_departure
Announced == last_state[1].is_present /\ last_state[1].next_departure # Nothing

\* the later computation runs more than a minute before the announced
\* departure and returns presence with the same departure
StillPresent ==
    calc_now < last_state[1].next_departure[1] - GraceSeconds
        => result'[1].is_present /\ result'[1].next_departure = last_state[1].next_departure

\* the later computation runs at the announced departure and returns absence
AbsentAtDeparture ==
    calc_now = last_state[1].next_departure[1] => ~result'[1].is_present

\* C30: presence lasts exactly until the announced departure: with no
\* override and unchanged configuration and manual windows, when a computation
\* at t returns is_present = true and next_departure = d, every computation at
\* t' with t <= t' < d - 1 minute returns is_present = true and the same d, and
\* a computation at d returns is_present = false
C30_PresentUntilAnnouncedDeparture ==
    [][(SecondComputation /\ Announced) => (StillPresent /\ AbsentAtDeparture)]_vars

\* the later computation has generated the windows the earlier one returned
WindowsKept ==
    SelectSeq(last_state[1].windows, LAMBDA w : w.end > calc_now + GraceSeconds)
        = result'[1].windows

\* when the later computation has generated the same windows, presence is
\* kept until the minute before d, and the computation at d returns absence
\* unless another window contains d
C30_PresentWhileWindowsKept ==
    [][(SecondComputation /\ Announced /\ WindowsKept)
        => /\ StillPresent
           /\ ~Inside(last_state[1].windows, last_state[1].next_departure[1]) => AbsentAtDeparture]_vars

\* the computation of 2025-12-31 19:00 announced the departure of 2026-01-04
\* 19:00; the one of 2026-01-01 19:00 returns absence until 2026-01-05
C30_NewYearWitness ==
    /\ config.custody_type = "alternate_week" /\ config.reference_year_custody = "even"
    /\ calc_now = MkDateTime(2026, 1, 1, 19, 0, 0) /\ ticks = 1 /\ manual_windows = << >>
    /\ result # Nothing /\ ~result[1].is_present
    /\ result[1].next_arrival = Some(MkDateTime(2026, 1, 5, 16, 15, 0))

\* a computation at the end of the pattern window, where a manual window
\* begins: the child is present
C30_TouchingWitness ==
    /\ calc_now = JuneDeparture /\ ticks > 0 /\ manual_windows # << >>
    /\ result # Nothing /\ result[1].is_present
    /\ \E i \in 1..Len(trace.pattern_windows) : trace.pattern_windows[i].end = JuneDeparture

\* a computation at the end of the pattern window returns absence
C30_DepartureWitness ==
    /\ calc_now = JuneDeparture /\ ticks > 0
    /\ result # Nothing /\ ~result[1].is_present
    /\ \E i \in 1..Len(trace.pattern_windows) : trace.pattern_windows[i].end = JuneDeparture

====
